---- MODULE Spec2Model ----
(***************************************************************************)
(* Structura: the graph construction and dependency resolution pipeline.   *)
(*                                                                         *)
(*   detectModuleType,                                                     *)
(*   getExtensionColor   src/lib/utils.ts                                  *)
(*   buildGraph,                                                           *)
(*   addDependencyLinks,                                                   *)
(*   groupIntoModules    src/lib/graph-builder.ts                          *)
(*   parseImports,                                                         *)
(*   resolveImportPath   src/lib/parser.ts                                 *)
(*   useRepoGraph,                                                         *)
(*   useDependencyLinks  src/hooks/useRepoGraph.ts                         *)
(*   analyzeFile,                                                          *)
(*   heuristicFileAnalysis  src/lib/ai-analyzer.ts                         *)
(*                                                                         *)
(* A JavaScript string is a sequence of one-character strings, so that     *)
(* split, join, includes, startsWith, endsWith and toLowerCase are         *)
(* computed on characters as the code computes them.                       *)
(***************************************************************************)
EXTENDS Integers, Sequences, FiniteSets, TLC

VARIABLES
    path,          \* detectModuleType: the argument
    moduleType,    \* detectModuleType: the returned tag, "pending" before the call
    treeItems,     \* the entry list handed to buildGraph (treeQuery.data.tree)
    graph,         \* the current GraphData, NullGraph before buildGraph has run
    graphIn,       \* addDependencyLinks: the graph argument of the last call
    dependencies,  \* addDependencyLinks: the pair list of the last call
    sourcePath,    \* resolveImportPath: first argument
    importPath,    \* resolveImportPath: second argument
    allPaths,      \* resolveImportPath: third argument
    resolved,      \* resolveImportPath: the result, Pending before the call
    resolveCalls,  \* resolveImportPath: the number of calls made with the arguments
    modules,       \* useRepoGraph: the module summaries derived from graph.nodes
    fileImports,   \* what the raw-content endpoint answers to the i-th file request
    query,         \* useDependencyLinks: "idle", "fetching" or "success"
    filesToParse,  \* useDependencyLinks: the files selected for parsing
    requested,     \* useDependencyLinks: the files whose content was requested
    results,       \* useDependencyLinks: the settled result of each file's task
    order,         \* the order in which the file tasks settled
    enriched,      \* useDependencyLinks: the query's data, NullGraph before it settles
    parseFile,     \* parseImports: the file the call is about
    parseLines,    \* parseImports: the lines of the content argument
    parsed,        \* parseImports: the returned sequence, NotParsed before the call
    apiKey,        \* analyzeFile: the apiKey argument
    aiReply,       \* analyzeFile: what the request to the model turns out to be
    analyzedFile,  \* analyzeFile: the path and content arguments
    analysis,      \* analyzeFile: how the call ended and the record it returned
    hookEnabled,   \* useRepoGraph: enabled && !!owner && !!repo
    defaultBranch, \* useRepoGraph: the default branch the repository endpoint reports
    repoTree,      \* useRepoGraph: the entry list the tree endpoint holds
    repoQuery,     \* useRepoGraph: the state of the metadata query
    treeQuery,     \* useRepoGraph: the state of the tree query under each query key
    treeRequests   \* useRepoGraph: the branches of the tree requests issued so far

vars == <<path, moduleType, treeItems, graph, graphIn, dependencies, modules,
          sourcePath, importPath, allPaths, resolved, resolveCalls,
          fileImports, query, filesToParse, requested, results, order, enriched,
          parseFile, parseLines, parsed,
          apiKey, aiReply, analyzedFile, analysis,
          hookEnabled, defaultBranch, repoTree, repoQuery, treeQuery, treeRequests>>

(***************************************************************************)
(* Strings                                                                 *)
(***************************************************************************)
LowerMap ==
    [A |-> "a", B |-> "b", C |-> "c", D |-> "d", E |-> "e", F |-> "f", G |-> "g",
     H |-> "h", I |-> "i", J |-> "j", K |-> "k", L |-> "l", M |-> "m", N |-> "n",
     O |-> "o", P |-> "p", Q |-> "q", R |-> "r", S |-> "s", T |-> "t", U |-> "u",
     V |-> "v", W |-> "w", X |-> "x", Y |-> "y", Z |-> "z"]

LowerChar(c) == IF c \in DOMAIN LowerMap THEN LowerMap[c] ELSE c

UpperChar(c) ==
    IF \E u \in DOMAIN LowerMap : LowerMap[u] = c
    THEN CHOOSE u \in DOMAIN LowerMap : LowerMap[u] = c
    ELSE c

RECURSIVE MapChars(_, _)
MapChars(s, up) ==
    IF s = <<>> THEN <<>>
    ELSE <<IF up THEN UpperChar(Head(s)) ELSE LowerChar(Head(s))>> \o MapChars(Tail(s), up)

toLowerCase(s) == MapChars(s, FALSE)

toUpperCase(s) == MapChars(s, TRUE)

startsWith(s, p) == Len(p) <= Len(s) /\ SubSeq(s, 1, Len(p)) = p

endsWith(s, p) == Len(p) <= Len(s) /\ SubSeq(s, Len(s) - Len(p) + 1, Len(s)) = p

includes(s, p) == \E i \in 1..(Len(s) - Len(p) + 1) : SubSeq(s, i, i + Len(p) - 1) = p

slice(s, n) == SubSeq(s, n + 1, Len(s))

RECURSIVE SplitFrom(_, _, _, _)
SplitFrom(s, c, i, cur) ==
    IF i > Len(s) THEN <<cur>>
    ELSE IF s[i] = c THEN <<cur>> \o SplitFrom(s, c, i + 1, <<>>)
    ELSE SplitFrom(s, c, i + 1, Append(cur, s[i]))

split(s, c) == SplitFrom(s, c, 1, <<>>)

RECURSIVE join(_, _)
join(parts, c) ==
    IF parts = <<>> THEN <<>>
    ELSE IF Len(parts) = 1 THEN parts[1]
    ELSE parts[1] \o <<c>> \o join(Tail(parts), c)

Last(s) == s[Len(s)]

ButLast(s) == SubSeq(s, 1, Len(s) - 1)

(***************************************************************************)
(* Words the paths and patterns below are spelled with.                    *)
(***************************************************************************)
SL == <<"/">>
DOT == <<".">>
w_a == <<"a">>
w_b == <<"b">>
w_api == <<"a", "p", "i">>
w_routes == <<"r", "o", "u", "t", "e", "s">>
w_controllers == <<"c", "o", "n", "t", "r", "o", "l", "l", "e", "r", "s">>
w_handlers == <<"h", "a", "n", "d", "l", "e", "r", "s">>
w_server == <<"s", "e", "r", "v", "e", "r">>
w_components == <<"c", "o", "m", "p", "o", "n", "e", "n", "t", "s">>
w_pages == <<"p", "a", "g", "e", "s">>
w_views == <<"v", "i", "e", "w", "s">>
w_app == <<"a", "p", "p">>
w_models == <<"m", "o", "d", "e", "l", "s">>
w_schema == <<"s", "c", "h", "e", "m", "a">>
w_migrations == <<"m", "i", "g", "r", "a", "t", "i", "o", "n", "s">>
w_prisma == <<"p", "r", "i", "s", "m", "a">>
w_drizzle == <<"d", "r", "i", "z", "z", "l", "e">>
w_config == <<"c", "o", "n", "f", "i", "g">>
w_dockerfile == <<"d", "o", "c", "k", "e", "r", "f", "i", "l", "e">>
w_Dockerfile == <<"D", "o", "c", "k", "e", "r", "f", "i", "l", "e">>
w_docs == <<"d", "o", "c", "s">>
w_lib == <<"l", "i", "b">>
w_utils == <<"u", "t", "i", "l", "s">>
w_helpers == <<"h", "e", "l", "p", "e", "r", "s">>
w_tests == <<"_", "_", "t", "e", "s", "t", "s", "_", "_">>
w_test == <<"t", "e", "s", "t">>
w_spec == <<"s", "p", "e", "c">>
w_ts == <<"t", "s">>
w_tsx == <<"t", "s", "x">>
w_js == <<"j", "s">>
w_jsx == <<"j", "s", "x">>
w_mjs == <<"m", "j", "s">>
w_vue == <<"v", "u", "e">>
w_svelte == <<"s", "v", "e", "l", "t", "e">>
w_sql == <<"s", "q", "l">>
w_json == <<"j", "s", "o", "n">>
w_yaml == <<"y", "a", "m", "l">>
w_yml == <<"y", "m", "l">>
w_toml == <<"t", "o", "m", "l">>
w_env == <<"e", "n", "v">>
w_md == <<"m", "d">>
w_src == <<"s", "r", "c">>
w_index == <<"i", "n", "d", "e", "x">>
w_users == <<"u", "s", "e", "r", "s">>
w_user == <<"u", "s", "e", "r">>
w_route == <<"r", "o", "u", "t", "e">>
w_Button == <<"B", "u", "t", "t", "o", "n">>
w_db == <<"d", "b">>
w_README == <<"R", "E", "A", "D", "M", "E">>
w_github == <<"g", "i", "t", "h", "u", "b">>
w_workflows == <<"w", "o", "r", "k", "f", "l", "o", "w", "s">>
w_ci == <<"c", "i">>
w_random == <<"r", "a", "n", "d", "o", "m">>
w_xyz == <<"x", "y", "z">>
w_react == <<"r", "e", "a", "c", "t">>
w_page == <<"p", "a", "g", "e">>
w_main == <<"m", "a", "i", "n">>

Dir(w) == SL \o w \o SL

Ext(w) == DOT \o w

(***************************************************************************)
(* detectModuleType (src/lib/utils.ts)                                     *)
(***************************************************************************)
ModuleTypes == {"api", "frontend", "database", "config", "test", "docs", "lib", "unknown"}

\* /\.(test|spec)\.(ts|tsx|js|jsx)$/.test(lower) || lower.includes("__tests__")
TestRule(lower) ==
    \/ \E t \in {w_test, w_spec}, e \in {w_ts, w_tsx, w_js, w_jsx} :
          endsWith(lower, Ext(t) \o Ext(e))
    \/ includes(lower, w_tests)

ApiRule(lower) ==
    \/ includes(lower, Dir(w_api))
    \/ includes(lower, Dir(w_routes))
    \/ includes(lower, Dir(w_controllers))
    \/ includes(lower, Dir(w_handlers))
    \/ includes(lower, w_server \o DOT)

FrontendRule(lower) ==
    \/ includes(lower, Dir(w_components))
    \/ includes(lower, Dir(w_pages))
    \/ includes(lower, Dir(w_views))
    \/ includes(lower, Dir(w_app))
    \/ endsWith(lower, Ext(w_tsx))
    \/ endsWith(lower, Ext(w_jsx))
    \/ endsWith(lower, Ext(w_vue))
    \/ endsWith(lower, Ext(w_svelte))

DatabaseRule(lower) ==
    \/ includes(lower, Dir(w_models))
    \/ includes(lower, Dir(w_schema))
    \/ includes(lower, Dir(w_migrations))
    \/ includes(lower, Dir(w_prisma))
    \/ includes(lower, Dir(w_drizzle))
    \/ endsWith(lower, Ext(w_sql))

ConfigRule(lower) ==
    \/ includes(lower, w_config)
    \/ endsWith(lower, Ext(w_json))
    \/ endsWith(lower, Ext(w_yaml))
    \/ endsWith(lower, Ext(w_yml))
    \/ endsWith(lower, Ext(w_toml))
    \/ endsWith(lower, Ext(w_env))
    \/ includes(lower, w_dockerfile)

DocsRule(lower) == endsWith(lower, Ext(w_md)) \/ includes(lower, Dir(w_docs))

LibRule(lower) ==
    \/ includes(lower, Dir(w_lib))
    \/ includes(lower, Dir(w_utils))
    \/ includes(lower, Dir(w_helpers))

\* A slip the classifier could have: the api rule tried before the test rule.
detectModuleTypeApiFirst(p) ==
    LET lower == toLowerCase(p) IN
    IF ApiRule(lower) THEN "api"
    ELSE IF TestRule(lower) THEN "test"
    ELSE IF FrontendRule(lower) THEN "frontend"
    ELSE IF DatabaseRule(lower) THEN "database"
    ELSE IF ConfigRule(lower) THEN "config"
    ELSE IF DocsRule(lower) THEN "docs"
    ELSE IF LibRule(lower) THEN "lib"
    ELSE "unknown"

detectModuleType(p) ==
    LET lower == toLowerCase(p) IN
    IF TestRule(lower) THEN "test"
    ELSE IF ApiRule(lower) THEN "api"
    ELSE IF FrontendRule(lower) THEN "frontend"
    ELSE IF DatabaseRule(lower) THEN "database"
    ELSE IF ConfigRule(lower) THEN "config"
    ELSE IF DocsRule(lower) THEN "docs"
    ELSE IF LibRule(lower) THEN "lib"
    ELSE "unknown"

(***************************************************************************)
(* buildGraph (src/lib/graph-builder.ts)                                   *)
(***************************************************************************)
Undefined == <<"undefined">>

NullGraph == [nodes |-> <<>>, links |-> <<>>]

\* a tree entry; size is carried as its decimal digits
SizedEntry(p, t, n) == [path |-> p, type |-> t, size |-> n]

Entry(p, t) == SizedEntry(p, t, <<"0">>)

\* Set.add on an insertion-ordered Set
SetAdd(set, x) == IF \E i \in 1..Len(set) : set[i] = x THEN set ELSE Append(set, x)

\* A slip the builder could have: the loop breaks at the first prefix that was
\* collected before, taking its descendants for collected too.
RECURSIVE AddPrefixesBreaksOnSeen(_, _, _)
AddPrefixesBreaksOnSeen(folderSet, parts, i) ==
    IF i >= Len(parts) THEN folderSet
    ELSE IF \E k \in 1..Len(folderSet) : folderSet[k] = join(SubSeq(parts, 1, i), "/")
    THEN folderSet
    ELSE AddPrefixesBreaksOnSeen(Append(folderSet, join(SubSeq(parts, 1, i), "/")), parts, i + 1)

\* for (let i = 1; i < parts.length; i++) folderSet.add(parts.slice(0, i).join("/"))
\* A slip the builder could have: the loop stops one prefix early, so the folder
\* that directly holds a nested entry is never collected.
RECURSIVE AddPrefixesStopsEarly(_, _, _)
AddPrefixesStopsEarly(folderSet, parts, i) ==
    IF i >= Len(parts) - 1 THEN folderSet
    ELSE AddPrefixesStopsEarly(SetAdd(folderSet, join(SubSeq(parts, 1, i), "/")), parts, i + 1)

RECURSIVE AddPrefixes(_, _, _)
AddPrefixes(folderSet, parts, i) ==
    IF i >= Len(parts) THEN folderSet
    ELSE AddPrefixes(SetAdd(folderSet, join(SubSeq(parts, 1, i), "/")), parts, i + 1)

\* TLC defers the evaluation of operator arguments; a value that a loop carries
\* from one iteration to the next is evaluated before it is passed on.
Evaluated(v) == v = v

\* for (const item of treeItems): the items are taken from first to last, each
\* adding its prefixes to the set the earlier ones left; the list is walked by
\* halves, the first half before the second, so that a long list does not nest
\* the evaluation deeply
RECURSIVE CollectFolders(_, _)
CollectFolders(items, folderSet) ==
    IF items = <<>> THEN folderSet
    ELSE IF Len(items) = 1 THEN AddPrefixes(folderSet, split(items[1].path, "/"), 1)
    ELSE LET half == Len(items) \div 2
             first == CollectFolders(SubSeq(items, 1, half), folderSet)
         IN  IF Evaluated(first)
             THEN CollectFolders(SubSeq(items, half + 1, Len(items)), first)
             ELSE first

\* the colors table of getExtensionColor
ExtensionColors ==
    {
      <<<<"t", "s">>, "#3178c6">>,
      <<<<"t", "s", "x">>, "#3178c6">>,
      <<<<"j", "s">>, "#f7df1e">>,
      <<<<"j", "s", "x">>, "#f7df1e">>,
      <<<<"p", "y">>, "#3776ab">>,
      <<<<"r", "s">>, "#dea584">>,
      <<<<"g", "o">>, "#00add8">>,
      <<<<"j", "a", "v", "a">>, "#b07219">>,
      <<<<"r", "b">>, "#cc342d">>,
      <<<<"p", "h", "p">>, "#4f5d95">>,
      <<<<"c", "s", "s">>, "#563d7c">>,
      <<<<"s", "c", "s", "s">>, "#c6538c">>,
      <<<<"h", "t", "m", "l">>, "#e34c26">>,
      <<<<"j", "s", "o", "n">>, "#292929">>,
      <<<<"m", "d">>, "#083fa1">>,
      <<<<"y", "a", "m", "l">>, "#cb171e">>,
      <<<<"y", "m", "l">>, "#cb171e">>,
      <<<<"t", "o", "m", "l">>, "#9c4121">>,
      <<<<"s", "q", "l">>, "#e38c00">>,
      <<<<"s", "h">>, "#89e051">>,
      <<<<"d", "o", "c", "k", "e", "r", "f", "i", "l", "e">>, "#384d54">>,
      <<<<"v", "u", "e">>, "#41b883">>,
      <<<<"s", "v", "e", "l", "t", "e">>, "#ff3e00">> }

getExtensionColor(filename) ==
    LET ext == toLowerCase(Last(split(filename, ".")))
        hit == {e \in ExtensionColors : e[1] = ext}
    IN  IF hit = {} THEN "#6b7280" ELSE (CHOOSE e \in hit : TRUE)[2]

MODULE_COLORS ==
    [api |-> "#ef4444", frontend |-> "#3b82f6", database |-> "#f59e0b",
     config |-> "#6b7280", test |-> "#8b5cf6", docs |-> "#10b981", lib |-> "#06b6d4",
     unknown |-> "#9ca3af"]

RootNode ==
    [id |-> DOT, name |-> <<"r", "o", "o", "t">>, path |-> DOT, type |-> "folder",
     moduleType |-> "unknown", depth |-> 0, size |-> Undefined,
     extension |-> Undefined, color |-> "#ffffff"]

\* parts.length > 1 ? parts.slice(0, -1).join("/") : "."
ParentPath(parts) == IF Len(parts) > 1 THEN join(ButLast(parts), "/") ELSE DOT

HierarchyLink(p) == [source |-> ParentPath(split(p, "/")), target |-> p, type |-> "hierarchy"]

FolderNode(folderPath) ==
    LET parts == split(folderPath, "/") IN
    [id |-> folderPath, name |-> Last(parts), path |-> folderPath, type |-> "folder",
     moduleType |-> detectModuleType(folderPath), depth |-> Len(parts),
     size |-> Undefined, extension |-> Undefined,
     color |-> MODULE_COLORS[detectModuleType(folderPath)]]

FileNode(item) ==
    LET parts == split(item.path, "/")
        name == Last(parts)
    IN  [id |-> item.path, name |-> name, path |-> item.path, type |-> "file",
         moduleType |-> detectModuleType(item.path), depth |-> Len(parts),
         size |-> item.size, extension |-> Last(split(name, ".")),
         color |-> getExtensionColor(name)]

\* A slip the builder could have: only tree entries are skipped.
IsNotTree(item) == item.type # "tree"

IsBlob(item) == item.type = "blob"

\* the folder nodes, one pushed per folder path in insertion order
FolderNodes(folders) ==
    IF folders = <<>> THEN <<>> ELSE [i \in 1..Len(folders) |-> FolderNode(folders[i])]

\* the hierarchy links pushed with the folder nodes
FolderLinks(folders) ==
    IF folders = <<>> THEN <<>> ELSE [i \in 1..Len(folders) |-> HierarchyLink(folders[i])]

\* the file nodes, one pushed per blob entry in entry order
FileNodes(blobs) ==
    IF blobs = <<>> THEN <<>> ELSE [i \in 1..Len(blobs) |-> FileNode(blobs[i])]

\* the hierarchy links pushed with the file nodes
FileLinks(blobs) ==
    IF blobs = <<>> THEN <<>> ELSE [i \in 1..Len(blobs) |-> HierarchyLink(blobs[i].path)]

buildGraph(items) ==
    LET folders == CollectFolders(items, <<>>)
        blobs == SelectSeq(items, IsBlob)
    IN  [nodes |-> <<RootNode>> \o FolderNodes(folders) \o FileNodes(blobs),
         links |-> FolderLinks(folders) \o FileLinks(blobs)]

(***************************************************************************)
(* addDependencyLinks (src/lib/graph-builder.ts)                           *)
(***************************************************************************)
NodeIds(g) == {g.nodes[i].id : i \in 1..Len(g.nodes)}

\* `${source}->${target}`
LinkKey(s, t) == s \o <<"-", ">">> \o t

LinkKeys(g) == {LinkKey(g.links[i].source, g.links[i].target) : i \in 1..Len(g.links)}

Pair(s, t) == [source |-> s, target |-> t]

\* A slip the linker could have: the key is never recorded, so nothing is deduplicated.
RECURSIVE NewLinksNoDedup(_, _, _)
NewLinksNoDedup(deps, nodeIds, existingLinks) ==
    IF deps = <<>> THEN <<>>
    ELSE LET dep == Head(deps) IN
         IF dep.source \in nodeIds /\ dep.target \in nodeIds
         THEN <<[source |-> dep.source, target |-> dep.target, type |-> "dependency"]>>
                \o NewLinksNoDedup(Tail(deps), nodeIds, existingLinks)
         ELSE NewLinksNoDedup(Tail(deps), nodeIds, existingLinks)

\* A slip the linker could have: the endpoints are not looked up in the node set.
RECURSIVE NewLinksNoNodeCheck(_, _, _)
NewLinksNoNodeCheck(deps, nodeIds, existingLinks) ==
    IF deps = <<>> THEN <<>>
    ELSE LET dep == Head(deps)
             key == LinkKey(dep.source, dep.target)
         IN  IF key \notin existingLinks
             THEN <<[source |-> dep.source, target |-> dep.target, type |-> "dependency"]>>
                    \o NewLinksNoNodeCheck(Tail(deps), nodeIds, existingLinks \cup {key})
             ELSE NewLinksNoNodeCheck(Tail(deps), nodeIds, existingLinks)

\* A slip the linker could have: only the pairs of this call are deduplicated.
RECURSIVE NewLinksIgnoreGraphLinks(_, _, _)
NewLinksIgnoreGraphLinks(deps, nodeIds, existingLinks) ==
    IF deps = <<>> THEN <<>>
    ELSE LET dep == Head(deps)
             key == LinkKey(dep.source, dep.target)
             rest == NewLinksIgnoreGraphLinks(Tail(deps), nodeIds, existingLinks)
             later == \E i \in 1..Len(rest) : LinkKey(rest[i].source, rest[i].target) = key
         IN  IF dep.source \in nodeIds /\ dep.target \in nodeIds /\ ~later
             THEN <<[source |-> dep.source, target |-> dep.target, type |-> "dependency"]>> \o rest
             ELSE rest

\* the loop over dependencies: newLinks, with existingLinks growing as pairs are pushed
RECURSIVE NewLinks(_, _, _)
NewLinks(deps, nodeIds, existingLinks) ==
    IF deps = <<>> THEN <<>>
    ELSE LET dep == Head(deps)
             key == LinkKey(dep.source, dep.target)
         IN  IF dep.source \in nodeIds /\ dep.target \in nodeIds /\ key \notin existingLinks
             THEN <<[source |-> dep.source, target |-> dep.target, type |-> "dependency"]>>
                    \o NewLinks(Tail(deps), nodeIds, existingLinks \cup {key})
             ELSE NewLinks(Tail(deps), nodeIds, existingLinks)

\* a call that puts the new links in front of the input's links
addDependencyLinksNewFirst(g, deps) ==
    [nodes |-> g.nodes, links |-> NewLinks(deps, NodeIds(g), LinkKeys(g)) \o g.links]

addDependencyLinks(g, deps) ==
    [nodes |-> g.nodes, links |-> g.links \o NewLinks(deps, NodeIds(g), LinkKeys(g))]

\* the caller's graph object once the call has returned: the call only reads
\* graph.nodes and graph.links, and builds the returned links in a new array
InputAfterCall(g, deps) == g

(***************************************************************************)
(* groupIntoModules (src/lib/graph-builder.ts)                             *)
(***************************************************************************)
moduleNames ==
    [api |-> "API Layer", frontend |-> "Frontend / UI", database |-> "Database Layer",
     config |-> "Configuration", test |-> "Tests", docs |-> "Documentation",
     lib |-> "Shared Libraries", unknown |-> "Other Files"]

\* the keys of groups in insertion order: a key is created by the first file node
\* that carries it
GroupKeys(nodes) ==
    LET files == SelectSeq(nodes, LAMBDA n : n.type = "file")
        firsts == SelectSeq([i \in 1..Len(files) |-> i],
                            LAMBDA i : \A j \in 1..(i - 1) :
                                          files[j].moduleType # files[i].moduleType)
    IN  [k \in 1..Len(firsts) |-> files[firsts[k]].moduleType]

\* groups[key]: the paths of the file nodes of that module type, in node order
GroupFiles(nodes, key) ==
    LET members == SelectSeq(nodes, LAMBDA n : n.type = "file" /\ n.moduleType = key) IN
    IF members = <<>> THEN <<>> ELSE [i \in 1..Len(members) |-> members[i].path]

\* one entry of Object.entries(groups).map(...); the description holds the number
\* of files and the type
ModuleSummary(nodes, key) ==
    LET files == GroupFiles(nodes, key) IN
    [name |-> moduleNames[key], type |-> key,
     description |-> <<Len(files), "files detected as", key>>,
     files |-> files, entryPoints |-> <<>>]

groupIntoModules(nodes) ==
    LET keys == GroupKeys(nodes) IN
    IF keys = <<>> THEN <<>> ELSE [i \in 1..Len(keys) |-> ModuleSummary(nodes, keys[i])]

(***************************************************************************)
(* heuristicModuleAnalysis: entry points (src/lib/ai-analyzer.ts)          *)
(***************************************************************************)
EntryPointCap == 5

entryPatterns ==
    {w_index \o DOT, w_main \o DOT, w_app \o DOT, w_server \o DOT, w_route \o DOT,
     w_page \o DOT}

\* entryPatterns.some((p) => f.split("/").pop()?.startsWith(p))
IsEntryFile(f) == \E p \in entryPatterns : startsWith(Last(split(f, "/")), p)

\* files.filter(...).slice(0, 5)
HeuristicEntryPoints(files) ==
    LET hits == SelectSeq(files, IsEntryFile) IN
    SubSeq(hits, 1, IF Len(hits) < EntryPointCap THEN Len(hits) ELSE EntryPointCap)

(***************************************************************************)
(* resolveImportPath (src/lib/parser.ts)                                   *)
(***************************************************************************)
Null == <<"null">>

Pending == <<"pending">>

AT_SL == <<"@", "/">>
TILDE_SL == <<"~", "/">>
DOTDOT == <<".", ".">>

\* importPath.startsWith(".") || importPath.startsWith("@/") || importPath.startsWith("~/")
IsInternal(imp) == startsWith(imp, DOT) \/ startsWith(imp, AT_SL) \/ startsWith(imp, TILDE_SL)

\* .filter(Boolean) on an array of strings
FilterNonEmpty(parts) == SelectSeq(parts, LAMBDA x : x # <<>>)

\* A slip the resolver could have: ".." is skipped like "." instead of popping.
RECURSIVE WalkNeverPops(_, _)
WalkNeverPops(dirParts, parts) ==
    IF parts = <<>> THEN dirParts
    ELSE LET part == Head(parts) IN
         IF part # DOT /\ part # DOTDOT THEN WalkNeverPops(Append(dirParts, part), Tail(parts))
         ELSE WalkNeverPops(dirParts, Tail(parts))

\* for (const part of parts) { if (part === "..") dirParts.pop(); else if (part !== ".") dirParts.push(part); }
RECURSIVE Walk(_, _)
Walk(dirParts, parts) ==
    IF parts = <<>> THEN dirParts
    ELSE LET part == Head(parts) IN
         IF part = DOTDOT
         THEN Walk(IF dirParts = <<>> THEN <<>> ELSE ButLast(dirParts), Tail(parts))
         ELSE IF part # DOT THEN Walk(Append(dirParts, part), Tail(parts))
         ELSE Walk(dirParts, Tail(parts))

\* A slip the resolver could have: "@/" is stripped like "~/", without the src/ root.
RewriteAliasStripped(src, imp) ==
    IF startsWith(imp, AT_SL) \/ startsWith(imp, TILDE_SL) THEN slice(imp, 2)
    ELSE IF startsWith(imp, DOT)
    THEN LET sourceDir == join(ButLast(split(src, "/")), "/")
             dirParts == FilterNonEmpty(split(sourceDir, "/"))
         IN  join(Walk(dirParts, split(imp, "/")), "/")
    ELSE imp

\* the rewritten path the candidates are built from
Rewrite(src, imp) ==
    IF startsWith(imp, AT_SL) THEN w_src \o SL \o slice(imp, 2)
    ELSE IF startsWith(imp, TILDE_SL) THEN slice(imp, 2)
    ELSE IF startsWith(imp, DOT)
    THEN LET sourceDir == join(ButLast(split(src, "/")), "/")
             dirParts == FilterNonEmpty(split(sourceDir, "/"))
         IN  join(Walk(dirParts, split(imp, "/")), "/")
    ELSE imp

\* A slip the resolver could have: the index files tried before the plain suffixes.
ExtensionsIndexFirst ==
    << SL \o w_index \o Ext(w_ts), SL \o w_index \o Ext(w_tsx),
       SL \o w_index \o Ext(w_js), SL \o w_index \o Ext(w_jsx),
       <<>>, Ext(w_ts), Ext(w_tsx), Ext(w_js), Ext(w_jsx), Ext(w_mjs) >>

Extensions ==
    << <<>>, Ext(w_ts), Ext(w_tsx), Ext(w_js), Ext(w_jsx), Ext(w_mjs),
       SL \o w_index \o Ext(w_ts), SL \o w_index \o Ext(w_tsx),
       SL \o w_index \o Ext(w_js), SL \o w_index \o Ext(w_jsx) >>

InArray(arr, x) == \E i \in 1..Len(arr) : arr[i] = x

\* A slip the resolver could have: the rewritten string returned when no
\* candidate is a known path.
RECURSIVE FirstCandidateOrRewritten(_, _, _)
FirstCandidateOrRewritten(base, all, i) ==
    IF i > Len(Extensions) THEN base
    ELSE IF InArray(all, base \o Extensions[i]) THEN base \o Extensions[i]
    ELSE FirstCandidateOrRewritten(base, all, i + 1)

\* for (const ext of extensions) { if (allPaths.includes(resolved + ext)) return candidate; } return null
RECURSIVE FirstCandidate(_, _, _)
FirstCandidate(base, all, i) ==
    IF i > Len(Extensions) THEN Null
    ELSE IF InArray(all, base \o Extensions[i]) THEN base \o Extensions[i]
    ELSE FirstCandidate(base, all, i + 1)

\* A slip the resolver could have: no early return for external packages.
resolveImportPathNoExternalCheck(src, imp, all) == FirstCandidate(Rewrite(src, imp), all, 1)

resolveImportPath(src, imp, all) ==
    IF ~IsInternal(imp) THEN Null
    ELSE FirstCandidate(Rewrite(src, imp), all, 1)

(***************************************************************************)
(* parseImports (src/lib/parser.ts)                                        *)
(***************************************************************************)
kw_import == <<"i", "m", "p", "o", "r", "t">>
kw_from == <<"f", "r", "o", "m">>
kw_require == <<"r", "e", "q", "u", "i", "r", "e">>
kw_export == <<"e", "x", "p", "o", "r", "t">>
kw_use == <<"u", "s", "e">>
kw_mod == <<"m", "o", "d">>

\* \s
Whitespace == {" ", "\t", "\n", "\r"}

\* \w
WordChars ==
    DOMAIN LowerMap \cup {LowerMap[u] : u \in DOMAIN LowerMap}
      \cup {"0", "1", "2", "3", "4", "5", "6", "7", "8", "9", "_"}

\* ['"]
Quotes == {"'", "\""}

\* A slip the parser could have: braces are missing from the clause class.
ClauseCharsNoBraces == WordChars \cup Whitespace \cup {"*", ","}

\* [\w*{}\s,]
ClauseChars == WordChars \cup Whitespace \cup {"*", "{", "}", ","}

\* the literal lit stands at position i of c
At(c, i, lit) == i + Len(lit) - 1 <= Len(c) /\ SubSeq(c, i, i + Len(lit) - 1) = lit

\* the last position of the longest run of characters of S that starts at i
\* (i - 1 when there is none): a greedy S* or S+
RECURSIVE RunEnd(_, _, _)
RunEnd(c, i, S) ==
    IF i <= Len(c) /\ c[i] \in S THEN RunEnd(c, i + 1, S) ELSE i - 1

\* the first position at or after i that holds a character of S, 0 when none
FirstIn(c, i, S) ==
    LET at == {k \in i..Len(c) : c[k] \in S} IN
    IF at = {} THEN 0 ELSE CHOOSE k \in at : \A m \in at : k <= m

\* the last position at or before i that holds a character outside S, 0 when none
LastNotIn(c, i, S) ==
    LET at == {k \in 1..i : c[k] \notin S} IN
    IF at = {} THEN 0 ELSE CHOOSE k \in at : \A m \in at : k >= m

\* \s+
IsSpaces(t) == t # <<>> /\ \A k \in 1..Len(t) : t[k] \in Whitespace

\* \s+[\w*{}\s,]+\s+from\s+
IsFromClause(t) ==
    LET e == LastNotIn(t, Len(t), Whitespace)
        r == SubSeq(t, 1, e - 4)
    IN  /\ e >= 4 /\ e < Len(t)
        /\ SubSeq(t, e - 3, e) = kw_from
        /\ Len(r) >= 3
        /\ r[1] \in Whitespace /\ r[Len(r)] \in Whitespace
        /\ \A k \in 1..Len(r) : r[k] \in ClauseChars

NoMatch == [ok |-> FALSE, targets |-> <<>>, end |-> 0]

Match(ts, e) == [ok |-> TRUE, targets |-> ts, end |-> e]

\* kw, then the text up to the opening quote, then ['"]([^'"]+)['"]; the clause
\* between kw and the quote is \s+ (only when bare is allowed) or a from-clause
QuotedAfterClause(c, i, kw, bare) ==
    LET a == i + Len(kw)
        q1 == FirstIn(c, a, Quotes)
        t == SubSeq(c, a, q1 - 1)
        q2 == FirstIn(c, q1 + 1, Quotes)
    IN  IF /\ At(c, i, kw) /\ q1 # 0
           /\ ((bare /\ IsSpaces(t)) \/ IsFromClause(t))
           /\ q2 > q1 + 1
        THEN Match(<<SubSeq(c, q1 + 1, q2 - 1)>>, q2)
        ELSE NoMatch

\* kw\s*\(\s*['"]([^'"]+)['"]\s*\)
QuotedInCall(c, i, kw) ==
    LET open == RunEnd(c, i + Len(kw), Whitespace) + 1
        q1 == RunEnd(c, open + 1, Whitespace) + 1
        q2 == FirstIn(c, q1 + 1, Quotes)
        close == RunEnd(c, q2 + 1, Whitespace) + 1
    IN  IF /\ At(c, i, kw)
           /\ At(c, open, <<"(">>)
           /\ q1 <= Len(c) /\ c[q1] \in Quotes
           /\ q2 > q1 + 1
           /\ At(c, close, <<")">>)
        THEN Match(<<SubSeq(c, q1 + 1, q2 - 1)>>, close)
        ELSE NoMatch

\* kw\s+(S+), anchored to the start of a line when the pattern starts with ^
KeywordRun(c, i, kw, S, anchored) ==
    LET s1 == RunEnd(c, i + Len(kw), Whitespace)
        r == RunEnd(c, s1 + 1, S)
    IN  IF /\ At(c, i, kw)
           /\ (anchored => (i = 1 \/ c[i - 1] \in {"\n", "\r"}))
           /\ s1 >= i + Len(kw)
           /\ r >= s1 + 1
        THEN Match(<<SubSeq(c, s1 + 1, r)>>, r)
        ELSE NoMatch

\* ^from\s+([\w.]+)\s+import
PyFromImport(c, i) ==
    LET m == KeywordRun(c, i, kw_from, WordChars \cup {"."}, TRUE)
        s2 == RunEnd(c, m.end + 1, Whitespace)
    IN  IF m.ok /\ s2 >= m.end + 1 /\ At(c, s2 + 1, kw_import)
        THEN Match(m.targets, s2 + Len(kw_import))
        ELSE NoMatch

\* "([^"]+)"
DoubleQuoted(c, i) ==
    LET q2 == FirstIn(c, i + 1, {"\""}) IN
    IF At(c, i, <<"\"">>) /\ q2 > i + 1
    THEN Match(<<SubSeq(c, i + 1, q2 - 1)>>, q2)
    ELSE NoMatch

\* while ((pathMatch = pathRegex.exec(match[1])) !== null)
RECURSIVE QuotedPaths(_, _)
QuotedPaths(c, i) ==
    IF i > Len(c) THEN <<>>
    ELSE LET m == DoubleQuoted(c, i) IN
         IF m.ok THEN m.targets \o QuotedPaths(c, m.end + 1)
         ELSE QuotedPaths(c, i + 1)

\* import\s+(?:\(\s*([\s\S]*?)\s*\)|"([^"]+)") with the loop body: the single
\* path, or every quoted path of a non-empty block
GoImport(c, i) ==
    LET s1 == RunEnd(c, i + Len(kw_import), Whitespace)
        close == FirstIn(c, s1 + 2, {")"})
        from == RunEnd(c, s1 + 2, Whitespace) + 1
        block == IF from >= close THEN <<>>
                 ELSE SubSeq(c, from, LastNotIn(c, close - 1, Whitespace))
        single == DoubleQuoted(c, s1 + 1)
    IN  IF ~(At(c, i, kw_import) /\ s1 >= i + Len(kw_import)) THEN NoMatch
        ELSE IF At(c, s1 + 1, <<"(">>) /\ close # 0
             THEN Match(QuotedPaths(block, 1), close)
        ELSE single

\* one attempt of a pattern at position i
MatchAt(c, i, pattern) ==
    CASE pattern = "esImport" -> QuotedAfterClause(c, i, kw_import, TRUE)
      [] pattern = "require" -> QuotedInCall(c, i, kw_require)
      [] pattern = "dynamic" -> QuotedInCall(c, i, kw_import)
      [] pattern = "reexport" -> QuotedAfterClause(c, i, kw_export, FALSE)
      [] pattern = "pyFrom" -> PyFromImport(c, i)
      [] pattern = "pyImport" -> KeywordRun(c, i, kw_import, WordChars \cup {"."}, TRUE)
      [] pattern = "goImport" -> GoImport(c, i)
      [] pattern = "rustUse" -> KeywordRun(c, i, kw_use, WordChars \cup {":"}, FALSE)
      [] pattern = "rustMod" -> KeywordRun(c, i, kw_mod, WordChars, FALSE)
      [] pattern = "javaImport" -> KeywordRun(c, i, kw_import, WordChars \cup {"."}, FALSE)

\* while ((match = regex.exec(content)) !== null): the leftmost match at or after
\* i, then on from the end of that match
RECURSIVE ExecAll(_, _, _)
ExecAll(c, i, pattern) ==
    IF i > Len(c) THEN <<>>
    ELSE LET m == MatchAt(c, i, pattern) IN
         IF m.ok THEN m.targets \o ExecAll(c, m.end + 1, pattern)
         ELSE ExecAll(c, i + 1, pattern)

\* deps.push({ source: filePath, target: match[1], type }) for each match
Deps(filePath, c, pattern, type) ==
    LET ts == ExecAll(c, 1, pattern) IN
    IF ts = <<>> THEN <<>>
    ELSE [k \in 1..Len(ts) |-> [source |-> filePath, target |-> ts[k], type |-> type]]

\* A slip the scan could have: the require battery run before the import battery.
parseJSImportsRequireFirst(filePath, c) ==
    Deps(filePath, c, "require", "require") \o Deps(filePath, c, "esImport", "import")
      \o Deps(filePath, c, "dynamic", "dynamic") \o Deps(filePath, c, "reexport", "import")

parseJSImports(filePath, c) ==
    Deps(filePath, c, "esImport", "import") \o Deps(filePath, c, "require", "require")
      \o Deps(filePath, c, "dynamic", "dynamic") \o Deps(filePath, c, "reexport", "import")

parsePythonImports(filePath, c) ==
    Deps(filePath, c, "pyFrom", "import") \o Deps(filePath, c, "pyImport", "import")

parseGoImports(filePath, c) == Deps(filePath, c, "goImport", "import")

parseRustImports(filePath, c) ==
    Deps(filePath, c, "rustUse", "import") \o Deps(filePath, c, "rustMod", "import")

parseJavaImports(filePath, c) == Deps(filePath, c, "javaImport", "import")

parseImports(filePath, c) ==
    LET ext == toLowerCase(Last(split(filePath, "."))) IN
    IF ext \in {w_ts, w_tsx, w_js, w_jsx, w_mjs, <<"c", "j", "s">>, w_vue, w_svelte}
    THEN parseJSImports(filePath, c)
    ELSE IF ext = <<"p", "y">> THEN parsePythonImports(filePath, c)
    ELSE IF ext = <<"g", "o">> THEN parseGoImports(filePath, c)
    ELSE IF ext = <<"r", "s">> THEN parseRustImports(filePath, c)
    ELSE IF ext = <<"j", "a", "v", "a">> THEN parseJavaImports(filePath, c)
    ELSE <<>>

(***************************************************************************)
(* useDependencyLinks (src/hooks/useRepoGraph.ts)                          *)
(***************************************************************************)
SelectCap == 50

FetchCap == 20

ParsableExtensions ==
    {w_ts, w_tsx, w_js, w_jsx, w_mjs, <<"p", "y">>, <<"g", "o">>, <<"r", "s">>,
     <<"j", "a", "v", "a">>, w_vue, w_svelte}

IsFileNode(n) == n.type = "file"

\* graph.nodes.filter((n) => n.type === "file").map((n) => n.path)
FilePaths(g) ==
    LET files == SelectSeq(g.nodes, IsFileNode) IN
    IF files = <<>> THEN <<>> ELSE [i \in 1..Len(files) |-> files[i].path]

IsParsable(p) == toLowerCase(Last(split(p, "."))) \in ParsableExtensions

Take(s, n) == SubSeq(s, 1, IF Len(s) < n THEN Len(s) ELSE n)

\* allPaths.filter(parsable).slice(0, 50)
FilesToParse(g) == Take(SelectSeq(FilePaths(g), IsParsable), SelectCap)

\* A slip the hook could have: every selected file is requested.
FilesToFetchUncapped(g) == FilesToParse(g)

\* filesToParse.slice(0, 20): the files whose content is requested
FilesToFetch(g) == Take(FilesToParse(g), FetchCap)

\* imports.map(resolve).filter(Boolean) for one file
RECURSIVE ResolveAll(_, _, _)
ResolveAll(filePath, imports, all) ==
    IF imports = <<>> THEN <<>>
    ELSE LET r == resolveImportPath(filePath, Head(imports).target, all)
             rest == ResolveAll(filePath, Tail(imports), all)
         IN  IF r # Null /\ r # <<>> THEN <<Pair(filePath, r)>> \o rest ELSE rest

PendingResult == [status |-> "pending", value |-> <<>>]

\* how one file's task settles: rejected when the request or the body read fails,
\* fulfilled with [] when the response is not ok, else fulfilled with the pairs
\* resolved from the parsed content
FileTask(filePath, response, all) ==
    IF response.status = "rejected" THEN [status |-> "rejected", value |-> <<>>]
    ELSE IF response.status = "notok" THEN [status |-> "fulfilled", value |-> <<>>]
    ELSE [status |-> "fulfilled",
          value |-> ResolveAll(filePath, parseImports(filePath, response.content), all)]

\* A slip the hook could have: one rejected task voids the whole batch, as with
\* Promise.all.
RECURSIVE ResolvedDepsAllOrNothing(_, _)
ResolvedDepsAllOrNothing(rs, i) ==
    IF i > Len(rs) \/ (\E k \in 1..Len(rs) : rs[k].status = "rejected") THEN <<>>
    ELSE rs[i].value \o ResolvedDepsAllOrNothing(rs, i + 1)

\* for (const result of results) if (result.status === "fulfilled" && result.value)
\*   resolvedDeps.push(...result.value)
RECURSIVE ResolvedDeps(_, _)
ResolvedDeps(rs, i) ==
    IF i > Len(rs) THEN <<>>
    ELSE (IF rs[i].status = "fulfilled" THEN rs[i].value ELSE <<>>)
           \o ResolvedDeps(rs, i + 1)

\* the queryFn of useDependencyLinks as a function of the graph and of what each
\* request is answered with
DependencyQueryFn(g, responses) ==
    LET files == FilesToFetch(g)
        rs == [i \in 1..Len(files) |-> FileTask(files[i], responses[i], FilePaths(g))]
    IN  addDependencyLinks(g, ResolvedDeps(rs, 1))

\* the decimal digits of a number, as a string
RECURSIVE Numeral(_)
Numeral(n) ==
    LET digit == <<"0", "1", "2", "3", "4", "5", "6", "7", "8", "9">>[(n % 10) + 1] IN
    IF n < 10 THEN <<digit>> ELSE Append(Numeral(n \div 10), digit)

(***************************************************************************)
(* analyzeFile, heuristicFileAnalysis (src/lib/ai-analyzer.ts)             *)
(***************************************************************************)
\* JSON values: a type tag and the strings the value holds (one for a string or
\* a number, the elements for an array, none for null and undefined)
JStr(s) == [t |-> "string", v |-> <<s>>]

JNum(s) == [t |-> "number", v |-> <<s>>]

JArr(xs) == [t |-> "array", v |-> xs]

JNull == [t |-> "null", v |-> <<>>]

JUndefined == [t |-> "undefined", v |-> <<>>]

\* x ?? d
Coalesce(x, d) == IF x.t \in {"null", "undefined"} THEN d ELSE x

\* !apiKey
Falsy(x) == x.t \in {"null", "undefined"} \/ (x.t = "string" /\ x.v[1] = <<>>)

AnalysisListCap == 20

HighLines == 300

MediumLines == 100

\* the character U+2014 of the summary template
EmDash == "U+2014"

kw_default == <<"d", "e", "f", "a", "u", "l", "t">>

DeclKeywords == {<<"c", "o", "n", "s", "t">>, <<"f", "u", "n", "c", "t", "i", "o", "n">>, <<"c", "l", "a", "s", "s">>, <<"i", "n", "t", "e", "r", "f", "a", "c", "e">>, <<"t", "y", "p", "e">>}

w_low == <<"l", "o", "w">>

w_medium == <<"m", "e", "d", "i", "u", "m">>

w_high == <<"h", "i", "g", "h">>

\* kw\s+['"]([^'"]+)['"]
QuotedAfterSpaces(c, i, kw) ==
    LET s1 == RunEnd(c, i + Len(kw), Whitespace)
        q1 == s1 + 1
        q2 == FirstIn(c, q1 + 1, Quotes)
    IN  IF /\ At(c, i, kw)
           /\ s1 >= i + Len(kw)
           /\ q1 <= Len(c) /\ c[q1] \in Quotes
           /\ q2 > q1 + 1
        THEN Match(<<SubSeq(c, q1 + 1, q2 - 1)>>, q2)
        ELSE NoMatch

\* (?:import|require|from)\s+['"]([^'"]+)['"]
HeuristicImportAt(c, i) ==
    IF At(c, i, kw_import) THEN QuotedAfterSpaces(c, i, kw_import)
    ELSE IF At(c, i, kw_require) THEN QuotedAfterSpaces(c, i, kw_require)
    ELSE QuotedAfterSpaces(c, i, kw_from)

\* export\s+(?:default\s+)?(?:const|function|class|interface|type)\s+(\w+)
HeuristicExportAt(c, i) ==
    LET s1 == RunEnd(c, i + Len(kw_export), Whitespace)
        d == s1 + 1
        sd == RunEnd(c, d + Len(kw_default), Whitespace)
        k == IF At(c, d, kw_default) /\ sd >= d + Len(kw_default) THEN sd + 1 ELSE d
        kws == {kw \in DeclKeywords : At(c, k, kw)}
        kw == CHOOSE x \in kws : TRUE
        s2 == RunEnd(c, k + Len(kw), Whitespace)
        r == RunEnd(c, s2 + 1, WordChars)
    IN  IF /\ At(c, i, kw_export)
           /\ s1 >= i + Len(kw_export)
           /\ kws # {}
           /\ s2 >= k + Len(kw)
           /\ r >= s2 + 1
        THEN Match(<<SubSeq(c, s2 + 1, r)>>, r)
        ELSE NoMatch

\* while ((match = regex.exec(content)) !== null) over one of the two patterns:
\* the leftmost match at or after i, then on from the end of that match; a match
\* can only start at the first letter of one of the pattern's keywords
RECURSIVE HeuristicExecAll(_, _, _)
HeuristicExecAll(c, i, pattern) ==
    LET firsts == IF pattern = "import" THEN {"i", "r", "f"} ELSE {"e"}
        j == FirstIn(c, i, firsts)
        m == IF pattern = "import" THEN HeuristicImportAt(c, j) ELSE HeuristicExportAt(c, j)
    IN  IF i > Len(c) \/ j = 0 THEN <<>>
        ELSE IF m.ok THEN m.targets \o HeuristicExecAll(c, m.end + 1, pattern)
        ELSE HeuristicExecAll(c, j + 1, pattern)

\* /export\s+default/.test(content)
HasExportDefault(c) ==
    \E i \in 1..Len(c) :
        LET s1 == RunEnd(c, i + Len(kw_export), Whitespace) IN
        At(c, i, kw_export) /\ s1 >= i + Len(kw_export) /\ At(c, s1 + 1, kw_default)

\* content.split("\n").length
LineCount(c) == Cardinality({k \in 1..Len(c) : c[k] = "\n"}) + 1

\* the purposes table, in the order Object.entries walks it
Purposes ==
    << <<<<"r", "o", "u", "t", "e", ".", "t", "s">>,
         <<"A", "P", "I", " ", "r", "o", "u", "t", "e", " ", "h", "a", "n", "d", "l", "e", "r">>>>,
       <<<<"r", "o", "u", "t", "e", ".", "j", "s">>,
         <<"A", "P", "I", " ", "r", "o", "u", "t", "e", " ", "h", "a", "n", "d", "l", "e", "r">>>>,
       <<<<"p", "a", "g", "e", ".", "t", "s", "x">>,
         <<"P", "a", "g", "e", " ", "c", "o", "m", "p", "o", "n", "e", "n", "t", " ", "(", "N", "e", "x", "t", ".", "j", "s", ")">>>>,
       <<<<"p", "a", "g", "e", ".", "j", "s", "x">>,
         <<"P", "a", "g", "e", " ", "c", "o", "m", "p", "o", "n", "e", "n", "t", " ", "(", "N", "e", "x", "t", ".", "j", "s", ")">>>>,
       <<<<"l", "a", "y", "o", "u", "t", ".", "t", "s", "x">>,
         <<"L", "a", "y", "o", "u", "t", " ", "w", "r", "a", "p", "p", "e", "r", " ", "c", "o", "m", "p", "o", "n", "e", "n", "t">>>>,
       <<<<"l", "a", "y", "o", "u", "t", ".", "j", "s", "x">>,
         <<"L", "a", "y", "o", "u", "t", " ", "w", "r", "a", "p", "p", "e", "r", " ", "c", "o", "m", "p", "o", "n", "e", "n", "t">>>>,
       <<<<"m", "i", "d", "d", "l", "e", "w", "a", "r", "e", ".", "t", "s">>,
         <<"R", "e", "q", "u", "e", "s", "t", " ", "m", "i", "d", "d", "l", "e", "w", "a", "r", "e">>>>,
       <<<<".", "c", "o", "n", "f", "i", "g", ".">>,
         <<"C", "o", "n", "f", "i", "g", "u", "r", "a", "t", "i", "o", "n", " ", "f", "i", "l", "e">>>>,
       <<<<".", "t", "e", "s", "t", ".">>,
         <<"T", "e", "s", "t", " ", "s", "u", "i", "t", "e">>>>,
       <<<<".", "s", "p", "e", "c", ".">>,
         <<"T", "e", "s", "t", " ", "s", "p", "e", "c", "i", "f", "i", "c", "a", "t", "i", "o", "n">>>> >>

\* the description of the first pattern the path holds (the file name is the end
\* of the path, so path.includes covers filename.includes), else "<EXT> source file"
PurposeOf(p, ext) ==
    LET hits == {k \in 1..Len(Purposes) : includes(p, Purposes[k][1])} IN
    IF hits = {} THEN toUpperCase(ext) \o <<" ", "s", "o", "u", "r", "c", "e", " ", "f", "i", "l", "e">>
    ELSE Purposes[CHOOSE k \in hits : \A m \in hits : k <= m][2]

heuristicFileAnalysis(p, c) ==
    LET filename == Last(split(p, "/"))
        ext == toLowerCase(Last(split(filename, ".")))
        lines == LineCount(c)
        deps == HeuristicExecAll(c, 1, "import")
        named == HeuristicExecAll(c, 1, "export")
        exports == IF HasExportDefault(c) THEN Append(named, kw_default) ELSE named
    IN  [path |-> JStr(p),
         summary |-> JStr(filename \o <<" ", EmDash, " ">> \o Numeral(lines) \o <<" ", "l", "i", "n", "e", "s", ",", " ">>
                            \o Numeral(Len(deps)) \o <<" ", "d", "e", "p", "e", "n", "d", "e", "n", "c", "i", "e", "s", ",", " ">>
                            \o Numeral(Len(exports)) \o <<" ", "e", "x", "p", "o", "r", "t", "s">>),
         purpose |-> JStr(PurposeOf(p, ext)),
         dependencies |-> JArr(Take(deps, AnalysisListCap)),
         exports |-> JArr(Take(exports, AnalysisListCap)),
         complexity |-> JStr(IF lines > HighLines THEN w_high
                             ELSE IF lines > MediumLines THEN w_medium ELSE w_low)]

\* the text of the model's answer as a sequence of pieces: "{", "}", a member
\* "key": value of an object, or prose without braces
Piece(kind, key, val) == [piece |-> kind, key |-> key, val |-> val]

IsPiece(x, kind) == x.piece = kind

\* text.match(/\{[\s\S]*\}/): from the first "{" to the last "}", <<>> for null
JsonMatch(text) ==
    LET opens == {k \in 1..Len(text) : IsPiece(text[k], "{")}
        closes == {k \in 1..Len(text) : IsPiece(text[k], "}")}
        first == CHOOSE k \in opens : \A m \in opens : k <= m
        last == CHOOSE k \in closes : \A m \in closes : k >= m
    IN  IF opens # {} /\ closes # {} /\ first < last THEN SubSeq(text, first, last) ELSE <<>>

\* JSON.parse accepts the matched text when it is one object: members only
\* between the outer braces
IsJsonObject(seg) == \A k \in 2..(Len(seg) - 1) : IsPiece(seg[k], "member")

\* parsed.key: the value of the last member with that key, undefined when none
Member(seg, key) ==
    LET at == {k \in 2..(Len(seg) - 1) : seg[k].key = key} IN
    IF at = {} THEN JUndefined ELSE seg[CHOOSE k \in at : \A m \in at : k >= m].val

NoAnalysis ==
    [path |-> JUndefined, summary |-> JUndefined, purpose |-> JUndefined,
     dependencies |-> JUndefined, exports |-> JUndefined, complexity |-> JUndefined]

\* the record built from the parsed answer (ai-analyzer.ts, return after JSON.parse)
AnalysisFromAnswer(p, seg) ==
    [path |-> Coalesce(Member(seg, "path"), JStr(p)),
     summary |-> Coalesce(Member(seg, "summary"), JStr(<<"N", "o", " ", "s", "u", "m", "m", "a", "r", "y", " ", "a", "v", "a", "i", "l", "a", "b", "l", "e">>)),
     purpose |-> Coalesce(Member(seg, "purpose"), JStr(<<"U", "n", "k", "n", "o", "w", "n", " ", "p", "u", "r", "p", "o", "s", "e">>)),
     dependencies |-> Coalesce(Member(seg, "dependencies"), JArr(<<>>)),
     exports |-> Coalesce(Member(seg, "exports"), JArr(<<>>)),
     complexity |-> Coalesce(Member(seg, "complexity"), JStr(w_medium))]

Threw == [threw |-> TRUE, value |-> NoAnalysis]

Value(a) == [threw |-> FALSE, value |-> a]

\* the body of the try block, given what the request and the answer turn out to be
TryBody(p, c, reply) ==
    CASE reply.kind = "rejected" -> Threw
      [] reply.kind = "notOk" -> Value(heuristicFileAnalysis(p, c))
      [] reply.kind = "notJson" -> Threw
      [] reply.kind = "nullBody" -> Threw
      [] reply.kind = "noCandidates" -> Value(heuristicFileAnalysis(p, c))
      [] reply.kind = "textNotString" -> Threw
      [] reply.kind = "text" ->
            LET seg == JsonMatch(reply.text) IN
            IF seg = <<>> THEN Value(heuristicFileAnalysis(p, c))
            ELSE IF ~IsJsonObject(seg) THEN Threw
            ELSE Value(AnalysisFromAnswer(p, seg))

Returned(a) == [status |-> "returned", value |-> a]

\* A slip analyzeFile could have: no catch around the request and the parsing.
analyzeFileNoCatch(p, c, key, reply) ==
    IF Falsy(key) THEN Returned(heuristicFileAnalysis(p, c))
    ELSE LET b == TryBody(p, c, reply) IN
         IF b.threw THEN [status |-> "thrown", value |-> NoAnalysis] ELSE Returned(b.value)

analyzeFile(p, c, key, reply) ==
    IF Falsy(key) THEN Returned(heuristicFileAnalysis(p, c))
    ELSE LET b == TryBody(p, c, reply) IN
         IF b.threw THEN Returned(heuristicFileAnalysis(p, c)) ELSE Returned(b.value)

(***************************************************************************)
(* useRepoGraph (src/hooks/useRepoGraph.ts)                                *)
(***************************************************************************)
\* retry: 1
RetryCount == 1

\* a query: its status, the request its queryFn is waiting for ("idle" when it is
\* not running), the failures of the current fetch, and whether it holds data
\* (the data of the last fetch that succeeded stays when a later fetch fails)
NewQuery == [status |-> "pending", phase |-> "idle", failures |-> 0, hasData |-> FALSE]

\* the values of repoQuery.data?.default_branch in the tree query's key
TreeKeys == {"undefined", "main", "dev"}

\* repoQuery.data?.default_branch
BranchOf(rq, branch) == IF rq.hasData THEN branch ELSE "undefined"

\* const branch = repoQuery.data?.default_branch ?? "main", in the queryFn of the
\* query with key k
BranchRequested(k) == IF k = "undefined" THEN "main" ELSE k

\* the queryFn resolved
Succeed(q) == [status |-> "success", phase |-> "idle", failures |-> 0, hasData |-> TRUE]

\* the queryFn threw: one more attempt, starting with the request first, while
\* the failures are fewer than retry; else the query is in error and keeps its data
Fail(q, first) ==
    IF q.failures < RetryCount
    THEN [q EXCEPT !.phase = first, !.failures = q.failures + 1]
    ELSE [q EXCEPT !.status = "error", !.phase = "idle"]

\* const graph = useMemo(() => treeQuery.data ? buildGraph(treeQuery.data.tree) : null)
HookGraph(tq, tree) == IF tq.hasData THEN buildGraph(tree) ELSE NullGraph

\* const modules = useMemo(() => graph ? groupIntoModules(graph.nodes) : [])
HookModules(g) == IF g = NullGraph THEN <<>> ELSE groupIntoModules(g.nodes)

NoStats == [totalFiles |-> 0, totalFolders |-> 0, languages |-> <<>>, none |-> TRUE]

\* the extensions of the file nodes in the order of their first occurrence, each
\* with the number of file nodes that carry it
LanguageCounts(files) ==
    LET exts == [i \in 1..Len(files) |-> files[i].extension]
        firsts == SelectSeq([i \in 1..Len(files) |-> i],
                            LAMBDA i : \A j \in 1..(i - 1) : exts[j] # exts[i])
    IN  [k \in 1..Len(firsts) |->
            [ext |-> exts[firsts[k]],
             count |-> Cardinality({i \in 1..Len(files) : exts[i] = exts[firsts[k]]})]]

\* const stats = useMemo(() => graph ? { totalFiles, totalFolders, languages } : null)
HookStats(g) ==
    IF g = NullGraph THEN NoStats
    ELSE LET files == SelectSeq(g.nodes, IsFileNode)
             folders == SelectSeq(g.nodes, LAMBDA n : n.type = "folder")
         IN  [totalFiles |-> Len(files), totalFolders |-> Len(folders),
              languages |-> IF files = <<>> THEN <<>> ELSE LanguageCounts(files),
              none |-> FALSE]

\* what the hook returns in a render
HookReturn(rq, tqs, branch, tree) ==
    LET tq == tqs[BranchOf(rq, branch)]
        g == HookGraph(tq, tree)
    IN  [graph |-> g,
         modules |-> HookModules(g),
         stats |-> HookStats(g),
         isError |-> rq.status = "error" \/ tq.status = "error",
         error |-> IF rq.status = "error" THEN "Failed to fetch repo"
                   ELSE IF tq.status = "error" THEN "Failed to fetch tree"
                   ELSE "null"]

(***************************************************************************)
(* Inputs                                                                  *)
(***************************************************************************)
MaxEntries == 3

MaxDeps == 2

MaxKnown == 3

MaxImports == 1

MaxFiles == 52

MaxDocs == 2

MaxNames == 2

MaxCalls == 2

MaxLines == 3

MaxPieces == 3

MaxRequests == 5

SeqsUpTo(S, n) == UNION {[1..k -> S] : k \in 0..n}

\* paths
p_a == w_a
p_a_b == w_a \o SL \o w_b
p_dot_a == DOT \o SL \o w_a
p_src_a_ts == w_src \o SL \o w_a \o Ext(w_ts)
p_src_b_ts == w_src \o SL \o w_b \o Ext(w_ts)
p_src_lib_b_tsx == w_src \o SL \o w_lib \o SL \o w_b \o Ext(w_tsx)
p_src_b == w_src \o SL \o w_b
p_b_ts == w_b \o Ext(w_ts)
p_zz == <<"z", "z">>
p_README_md == w_README \o Ext(w_md)
p_api_users_route_ts == w_api \o SL \o w_users \o SL \o w_route \o Ext(w_ts)
p_components_Button_tsx == w_components \o SL \o w_Button \o Ext(w_tsx)
p_prisma_schema_prisma == w_prisma \o SL \o w_schema \o Ext(w_prisma)
p_db_schema_user_sql == w_db \o SL \o w_schema \o SL \o w_user \o Ext(w_sql)
p_github_workflows_ci_yml == Ext(w_github) \o SL \o w_workflows \o SL \o w_ci \o Ext(w_yml)
p_lib_utils_ts == w_lib \o SL \o w_utils \o Ext(w_ts)
p_random_xyz == w_random \o Ext(w_xyz)
p_src_app_page_tsx == w_src \o SL \o w_app \o SL \o w_page \o Ext(w_tsx)
p_src_lib_utils_ts == w_src \o SL \o w_lib \o SL \o w_utils \o Ext(w_ts)

\* detectModuleType: every prefix/folder/stem/extension combination, the scenario
\* table's paths and the empty path, as written and in upper case
ClassifyPrefixes == {<<>>, w_src \o SL}

ClassifyFolders ==
    {<<>>, w_api \o SL, w_components \o SL, w_schema \o SL, w_docs \o SL, w_lib \o SL,
     w_tests \o SL}

ClassifyStems == {w_a, w_server, w_config, w_Dockerfile}

ClassifyExtensions ==
    {<<>>, Ext(w_ts), Ext(w_test) \o Ext(w_ts), Ext(w_tsx), Ext(w_sql), Ext(w_json), Ext(w_md)}

ScenarioPaths ==
    {p_api_users_route_ts, p_components_Button_tsx, p_prisma_schema_prisma,
     p_db_schema_user_sql, p_README_md, p_github_workflows_ci_yml, p_lib_utils_ts,
     p_random_xyz}

ClassifyPaths ==
    {a \o b \o c \o d : a \in ClassifyPrefixes, b \in ClassifyFolders,
                        c \in ClassifyStems, d \in ClassifyExtensions}
      \cup ScenarioPaths \cup {<<>>}

ClassifyInputs == ClassifyPaths \cup {toUpperCase(p) : p \in ClassifyPaths}

\* buildGraph: entries with nested, repeated, prefix and "." segment paths
EntryPool ==
    {Entry(p_a, "blob"), Entry(p_a_b, "blob"), Entry(p_a, "tree"), Entry(p_a_b, "tree"),
     Entry(p_dot_a, "blob"), Entry(p_src_a_ts, "blob"), Entry(p_src_lib_b_tsx, "blob"),
     Entry(w_lib, "commit"), SizedEntry(p_a, "blob", <<"7">>)}

EntryLists == SeqsUpTo(EntryPool, MaxEntries)

\* file names by the shape of their extension: lowercase, uppercase, mixed case
\* after two dots, none, and a leading dot only
FileNames ==
    { w_a \o Ext(w_ts), w_README \o Ext(<<"M", "D">>),
      w_a \o Ext(w_b) \o Ext(<<"T", "s", "x">>), w_Dockerfile, w_lib, Ext(w_env) }

NamedBlobs ==
    {Entry(n, "blob") : n \in FileNames} \cup {Entry(w_src \o SL \o n, "blob") : n \in FileNames}

NameLists == SeqsUpTo(NamedBlobs, MaxNames)

\* file names that contain the separator of the link keys
p_c == <<"c">>

p_a_arrow_b == <<"a", "-", ">", "b">>

p_b_arrow_c == <<"b", "-", ">", "c">>

\* addDependencyLinks: the trees the linked graphs are built from, and the pairs
LinkTrees ==
    { <<>>,
      <<Entry(p_a_b, "blob")>>,
      <<Entry(p_a, "blob"), Entry(p_a_b, "blob")>>,
      <<Entry(p_src_a_ts, "blob"), Entry(p_src_b_ts, "blob")>>,
      <<Entry(p_a, "blob"), Entry(p_b_arrow_c, "blob"),
        Entry(p_a_arrow_b, "blob"), Entry(p_c, "blob")>> }

DepPool ==
    {Pair(DOT, p_a), Pair(p_a, DOT), Pair(p_a_b, p_a), Pair(p_a, p_zz),
     Pair(p_src_a_ts, p_src_b_ts), Pair(p_a, p_b_arrow_c), Pair(p_a_arrow_b, p_c)}

DepLists == SeqsUpTo(DepPool, MaxDeps)

\* resolveImportPath: source paths, raw targets and known path lists
ResolveSources == {p_src_a_ts, w_a \o Ext(w_ts), p_src_lib_b_tsx, p_src_app_page_tsx}

ResolveRaws ==
    {DOT \o SL \o w_b, AT_SL \o w_b, TILDE_SL \o p_src_b, DOTDOT \o SL \o p_src_b,
     w_react, p_src_b_ts, DOT \o SL \o w_a \o SL \o DOTDOT \o SL \o w_b,
     DOTDOT \o SL \o w_b, AT_SL \o w_lib \o SL \o w_utils}

KnownPool ==
    << p_src_b, p_src_b_ts, p_src_b \o Ext(w_tsx), p_src_b \o Ext(w_js),
       p_src_b \o Ext(w_jsx), p_src_b \o Ext(w_mjs),
       p_src_b \o SL \o w_index \o Ext(w_ts), p_src_b \o SL \o w_index \o Ext(w_tsx),
       p_src_b \o SL \o w_index \o Ext(w_js), p_src_b \o SL \o w_index \o Ext(w_jsx),
       p_b_ts, w_react, p_src_lib_utils_ts >>

KnownLists ==
    {SelectSeq(KnownPool, LAMBDA x : x \in S) :
        S \in {T \in SUBSET {KnownPool[i] : i \in 1..Len(KnownPool)} : Cardinality(T) <= MaxKnown}}

\* useDependencyLinks: the trees, the raw targets found in a file and the outcomes
PipeTrees ==
    { <<Entry(p_src_a_ts, "blob"), Entry(p_src_b_ts, "blob")>>,
      <<Entry(p_src_a_ts, "blob"), Entry(p_README_md, "blob"), Entry(w_react, "blob"),
        Entry(p_src_b \o SL \o w_index \o Ext(w_ts), "blob")>>,
      <<Entry(p_b_ts, "blob"), Entry(p_a_b, "tree"), Entry(p_src_b_ts, "blob")>> }

\* a repository of d markdown files followed by n TypeScript files under src/
NumberedFiles(stem, ext, n) ==
    [i \in 1..n |-> Entry(w_src \o SL \o stem \o Numeral(i) \o Ext(ext), "blob")]

CapTrees ==
    {NumberedFiles(<<"d">>, w_md, d) \o NumberedFiles(<<"f">>, w_ts, n) :
        d \in 0..MaxDocs, n \in 0..MaxFiles}

PipeRaws == {DOT \o SL \o w_b, w_react, p_src_b_ts, AT_SL \o w_b}

SP == <<" ">>

Quoted(p) == <<"'">> \o p \o <<"'">>

\* import { x } from '<raw>'
NamedImport(raw) ==
    kw_import \o SP \o <<"{", " ", "x", " ", "}">> \o SP \o kw_from \o SP \o Quoted(raw)

\* one statement per raw target, in the form the raw target is usually written in
Statements ==
    { NamedImport(DOT \o SL \o w_b),
      kw_import \o SP \o Quoted(w_react),
      <<"c", "o", "n", "s", "t", " ", "b", " ", "=", " ">> \o kw_require
        \o <<"(">> \o Quoted(DOT \o SL \o w_b) \o <<")">>,
      kw_import \o <<"(">> \o Quoted(AT_SL \o w_b) \o <<")">>,
      kw_export \o SP \o <<"*">> \o SP \o kw_from \o SP \o Quoted(p_src_b_ts) }

\* parseImports: files by what the switch on the extension does with them
NoFile == [path |-> <<>>, family |-> "none"]

\* the value of parsed before the call: no dependency has the type "pending"
NotParsed == <<[source |-> <<>>, target |-> <<>>, type |-> "pending"]>>

ParseFiles ==
    { [path |-> p_src_a_ts, family |-> "js"],
      [path |-> w_a \o <<".", "T", "S", "X">>, family |-> "js"],
      [path |-> w_a \o Ext(w_vue), family |-> "js"],
      [path |-> p_README_md, family |-> "none"],
      [path |-> <<"D", "o", "c", "k", "e", "r", "f", "i", "l", "e">>, family |-> "none"],
      [path |-> p_src_a_ts \o <<".", "b", "a", "k">>, family |-> "none"] }

\* parseImports: lines of a JavaScript file, each with the one scan that matches
\* it, the type that scan pushes and the quoted path
ParseLine(t, p, ty, tg) == [text |-> t, pattern |-> p, type |-> ty, target |-> tg]

ParseLinePool ==
    { ParseLine(NamedImport(DOT \o SL \o w_b), "esImport", "import", DOT \o SL \o w_b),
      ParseLine(kw_import \o SP \o Quoted(w_react), "esImport", "import", w_react),
      ParseLine(<<"c", "o", "n", "s", "t", " ", "b", " ", "=", " ">> \o kw_require
                  \o <<"(">> \o Quoted(DOT \o SL \o w_b) \o <<")">>,
                "require", "require", DOT \o SL \o w_b),
      ParseLine(kw_import \o <<"(">> \o Quoted(AT_SL \o w_b) \o <<")">>,
                "dynamic", "dynamic", AT_SL \o w_b),
      ParseLine(kw_export \o SP \o <<"*">> \o SP \o kw_from \o SP \o Quoted(p_src_b_ts),
                "reexport", "import", p_src_b_ts),
      ParseLine(<<"c", "o", "n", "s", "t", " ", "x", " ", "=", " ", "1">>,
                "none", "none", <<>>) }

ParseLineLists == SeqsUpTo(ParseLinePool, MaxLines)

\* the content argument: the lines joined by newlines
ContentOf(lines) ==
    IF lines = <<>> THEN <<>> ELSE join([k \in 1..Len(lines) |-> lines[k].text], "\n")

\* analyzeFile: the apiKey argument absent, empty and set
ApiKeys == {JUndefined, JStr(<<>>), JStr(<<"k">>)}

Newlines(n) == [k \in 1..n |-> "\n"]

\* analyzeFile: files of 1, 2, 101 and 301 lines
AnalysisFiles ==
    { [path |-> p_src_a_ts, content |-> <<>>],
      [path |-> p_src_app_page_tsx,
       content |-> <<"i", "m", "p", "o", "r", "t", " ", "'", "r", "e", "a", "c", "t", "'", "\n", "e", "x", "p", "o", "r", "t", " ", "d", "e", "f", "a", "u", "l", "t", " ", "f", "u", "n", "c", "t", "i", "o", "n", " ", "A", "p", "p">>],
      [path |-> w_src \o SL \o w_a \o Ext(w_test) \o Ext(w_ts),
       content |-> <<"i", "m", "p", "o", "r", "t", " ", "x", " ", "f", "r", "o", "m", " ", "'", ".", "/", "b", "'", "\n", "e", "x", "p", "o", "r", "t", " ", "c", "o", "n", "s", "t", " ", "a", " ", "=", " ", "r", "e", "q", "u", "i", "r", "e", "(", "'", ".", "/", "b", "'", ")">>],
      [path |-> p_src_b_ts, content |-> <<"i", "m", "p", "o", "r", "t", " ", "'", "r", "e", "a", "c", "t", "'">> \o Newlines(MediumLines)],
      [path |-> <<"D", "o", "c", "k", "e", "r", "f", "i", "l", "e">>, content |-> Newlines(HighLines)] }

\* analyzeFile: the pieces an answer text is made of
PiecePool ==
    { Piece("prose", "", JUndefined), Piece("{", "", JUndefined), Piece("}", "", JUndefined),
      Piece("member", "complexity", JStr(w_high)),
      Piece("member", "complexity", JStr(<<"e", "x", "t", "r", "e", "m", "e">>)),
      Piece("member", "dependencies", JStr(<<"n", "o", "n", "e">>)) }

NoReply == [kind |-> "none", text |-> <<>>]

\* the request rejected, answered with a status that is not ok, answered with a
\* body that is not JSON, with the body null, with no candidate, with a candidate
\* whose text is not a string, or with a text
AiReplies ==
    {[kind |-> k, text |-> <<>>] :
        k \in {"rejected", "notOk", "notJson", "nullBody", "noCandidates", "textNotString"}}
      \cup {[kind |-> "text", text |-> t] : t \in SeqsUpTo(PiecePool, MaxPieces)}

NotAnalyzed == [status |-> "pending", value |-> NoAnalysis]

\* useRepoGraph: the trees the tree endpoint may hold
HookTrees ==
    { <<Entry(p_src_a_ts, "blob")>>,
      <<Entry(p_src_a_ts, "blob"), Entry(p_README_md, "blob"), Entry(w_docs, "tree")>> }

\* file contents: up to MaxImports statements, one per line
Contents == {join(lines, "\n") : lines \in SeqsUpTo(Statements, MaxImports)}

Outcomes ==
    {[status |-> "ok", content |-> c] : c \in Contents}
      \cup {[status |-> "notok", content |-> <<>>], [status |-> "rejected", content |-> <<>>]}

(***************************************************************************)
(* Specifications                                                          *)
(***************************************************************************)
classifyVars == <<path, moduleType>>
graphVars == <<treeItems, graph, graphIn, dependencies, modules>>
resolveVars == <<sourcePath, importPath, allPaths, resolved, resolveCalls>>

parseVars == <<parseFile, parseLines, parsed>>

analysisVars == <<apiKey, aiReply, analyzedFile, analysis>>

\* the components that have a specification of their own further down
hookVars == <<hookEnabled, defaultBranch, repoTree, repoQuery, treeQuery, treeRequests>>

\* the components that have a specification of their own further down
otherVars == <<parseVars, analysisVars, hookVars>>
pipeVars == <<fileImports, query, filesToParse, requested, results, order, enriched>>

\* the parts of the state a specification does not exercise
ClassifyIdle == path = <<>> /\ moduleType = "pending"

GraphStart ==
    graph = NullGraph /\ graphIn = NullGraph /\ dependencies = <<>> /\ modules = <<>>

GraphIdle == treeItems = <<>> /\ GraphStart

ResolveIdle ==
    /\ sourcePath = <<>> /\ importPath = <<>> /\ allPaths = <<>>
    /\ resolved = Pending /\ resolveCalls = 0

QueryStart ==
    /\ query = "idle" /\ filesToParse = <<>> /\ requested = <<>>
    /\ results = <<>> /\ order = <<>> /\ enriched = NullGraph

PipeIdle == fileImports = <<>> /\ QueryStart

ParseIdle == parseFile = NoFile /\ parseLines = <<>> /\ parsed = NotParsed

AnalysisIdle ==
    /\ apiKey = JUndefined /\ aiReply = NoReply
    /\ analyzedFile = [path |-> <<>>, content |-> <<>>] /\ analysis = NotAnalyzed

HookIdle ==
    /\ hookEnabled = FALSE /\ defaultBranch = "main" /\ repoTree = <<>>
    /\ repoQuery = NewQuery /\ treeQuery = [k \in TreeKeys |-> NewQuery]
    /\ treeRequests = <<>>

OthersIdle == ParseIdle /\ AnalysisIdle /\ HookIdle

\* detectModuleType applied to the drawn path
Classify ==
    /\ moduleType = "pending"
    /\ moduleType' = detectModuleType(path)
    /\ UNCHANGED <<path, graphVars, resolveVars, pipeVars, otherVars>>

InitClassify ==
    /\ path \in ClassifyInputs /\ moduleType = "pending"
    /\ GraphIdle /\ ResolveIdle /\ PipeIdle
    /\ OthersIdle

NextClassify == Classify

SpecClassify == InitClassify /\ [][NextClassify]_vars

\* useRepoGraph step 3: once the tree is there, the graph is built from it and the
\* module summaries are derived from the graph's nodes in the same render
BuildGraph ==
    /\ graph = NullGraph
    /\ graph' = buildGraph(treeItems)
    /\ modules' = groupIntoModules(graph'.nodes)
    /\ UNCHANGED <<treeItems, graphIn, dependencies, classifyVars, resolveVars,
                 pipeVars, otherVars>>

InitBuild ==
    /\ treeItems \in EntryLists /\ GraphStart
    /\ ClassifyIdle /\ ResolveIdle /\ PipeIdle
    /\ OthersIdle

NextBuild == BuildGraph

SpecBuild == InitBuild /\ [][NextBuild]_vars

\* trees of files whose names differ in the shape of their extension
InitNames ==
    /\ treeItems \in NameLists /\ GraphStart
    /\ ClassifyIdle /\ ResolveIdle /\ PipeIdle
    /\ OthersIdle

NextNames == BuildGraph

SpecNames == InitNames /\ [][NextNames]_vars

\* one call graph = addDependencyLinks(graph, deps)
AddDependencyLinks ==
    /\ graph # NullGraph
    /\ \E deps \in DepLists :
          /\ graphIn' = InputAfterCall(graph, deps)
          /\ dependencies' = deps
          /\ graph' = addDependencyLinks(graph, deps)
    /\ UNCHANGED <<treeItems, modules, classifyVars, resolveVars, pipeVars, otherVars>>

Init ==
    /\ treeItems \in LinkTrees /\ GraphStart
    /\ ClassifyIdle /\ ResolveIdle /\ PipeIdle
    /\ OthersIdle

Next == BuildGraph \/ AddDependencyLinks

Spec == Init /\ [][Next]_vars

\* resolveImportPath applied to the drawn triple
\* one call resolveImportPath(sourcePath, importPath, allPaths); the caller may
\* repeat it with the same arguments
Resolve ==
    /\ resolveCalls < MaxCalls
    /\ resolved' = resolveImportPath(sourcePath, importPath, allPaths)
    /\ resolveCalls' = resolveCalls + 1
    /\ UNCHANGED <<sourcePath, importPath, allPaths, classifyVars, graphVars,
                 pipeVars, otherVars>>

InitResolve ==
    /\ sourcePath \in ResolveSources /\ importPath \in ResolveRaws
    /\ allPaths \in KnownLists /\ resolved = Pending /\ resolveCalls = 0
    /\ ClassifyIdle /\ GraphIdle /\ PipeIdle
    /\ OthersIdle

NextResolve == Resolve

SpecResolve == InitResolve /\ [][NextResolve]_vars

\* the dependency query starts once it is enabled (the graph has nodes): the files
\* are selected and one task per file to fetch is started, all of them at once
StartQuery ==
    /\ graph # NullGraph /\ Len(graph.nodes) > 0
    /\ query = "idle"
    /\ query' = "fetching"
    /\ filesToParse' = FilesToParse(graph)
    /\ requested' = FilesToFetch(graph)
    /\ results' = [i \in 1..Len(FilesToFetch(graph)) |-> PendingResult]
    /\ UNCHANGED <<fileImports, order, enriched, graphVars, classifyVars,
                 resolveVars, otherVars>>

\* the task of the i-th requested file settles, in any order among the tasks
Settle(i) ==
    /\ query = "fetching"
    /\ results[i] = PendingResult
    /\ results' = [results EXCEPT
                     ![i] = FileTask(requested[i], fileImports[i], FilePaths(graph))]
    /\ order' = Append(order, i)
    /\ UNCHANGED <<fileImports, query, filesToParse, requested, enriched,
                   graphVars, classifyVars, resolveVars, otherVars>>

\* A slip the hook could have: the first settled task ends the wait, and the
\* tasks still pending contribute nothing.
CompleteOnFirstSettled ==
    /\ query = "fetching"
    /\ \E i \in 1..Len(results) : results[i] # PendingResult
    /\ query' = "success"
    /\ enriched' = addDependencyLinks(graph, ResolvedDeps(results, 1))
    /\ UNCHANGED <<fileImports, filesToParse, requested, results, order,
                   graphVars, classifyVars, resolveVars, otherVars>>

\* Promise.allSettled resolves once every task has settled; the fulfilled values
\* are collected in request order and merged into the graph
CompleteQuery ==
    /\ query = "fetching"
    /\ \A i \in 1..Len(results) : results[i] # PendingResult
    /\ query' = "success"
    /\ enriched' = addDependencyLinks(graph, ResolvedDeps(results, 1))
    /\ UNCHANGED <<fileImports, filesToParse, requested, results, order,
                   graphVars, classifyVars, resolveVars, otherVars>>

\* the answers the requests will get are drawn with the tree
\* one call parseImports(filePath, content)
ParseImports ==
    /\ parsed = NotParsed
    /\ parsed' = parseImports(parseFile.path, ContentOf(parseLines))
    /\ UNCHANGED <<parseFile, parseLines, classifyVars, graphVars, resolveVars, pipeVars,
                   analysisVars, hookVars>>

InitParse ==
    /\ parseFile \in ParseFiles /\ parseLines \in ParseLineLists /\ parsed = NotParsed
    /\ ClassifyIdle /\ GraphIdle /\ ResolveIdle /\ PipeIdle /\ AnalysisIdle /\ HookIdle

NextParse == ParseImports

SpecParse == InitParse /\ [][NextParse]_vars

\* one call analyzeFile(path, content, apiKey); no request is made without a key
AnalyzeFile ==
    /\ analysis = NotAnalyzed
    /\ analysis' = analyzeFile(analyzedFile.path, analyzedFile.content, apiKey, aiReply)
    /\ UNCHANGED <<apiKey, aiReply, analyzedFile, classifyVars, graphVars, resolveVars,
                   pipeVars, parseVars, hookVars>>

InitAnalyze ==
    /\ apiKey \in ApiKeys
    /\ aiReply \in (IF Falsy(apiKey) THEN {NoReply} ELSE AiReplies)
    /\ analyzedFile \in AnalysisFiles /\ analysis = NotAnalyzed
    /\ ClassifyIdle /\ GraphIdle /\ ResolveIdle /\ PipeIdle /\ ParseIdle /\ HookIdle

NextAnalyze == AnalyzeFile

SpecAnalyze == InitAnalyze /\ [][NextAnalyze]_vars

\* the key the tree query is observed under in the current render
TreeKey == BranchOf(repoQuery, defaultBranch)

hookInputs == <<hookEnabled, defaultBranch, repoTree>>

notHookVars == <<classifyVars, graphVars, resolveVars, pipeVars, parseVars, analysisVars>>

\* the metadata query starts by itself when it is enabled and has not run
RepoStart ==
    /\ hookEnabled /\ repoQuery = NewQuery
    /\ repoQuery' = [repoQuery EXCEPT !.phase = "repo"]
    /\ UNCHANGED <<hookInputs, treeQuery, treeRequests, notHookVars>>

\* the metadata request is answered: ok with a valid body, or the queryFn throws
RepoAnswer ==
    /\ repoQuery.phase = "repo"
    /\ \E ok \in BOOLEAN :
          repoQuery' = IF ok THEN Succeed(repoQuery) ELSE Fail(repoQuery, "repo")
    /\ UNCHANGED <<hookInputs, treeQuery, treeRequests, notHookVars>>

\* the tree query starts by itself when it is enabled (!!repoQuery.data) and the
\* query under the current key has not run; its queryFn requests the branch
TreeStart ==
    /\ repoQuery.hasData /\ treeQuery[TreeKey] = NewQuery
    /\ Len(treeRequests) < MaxRequests
    /\ treeQuery' = [treeQuery EXCEPT ![TreeKey].phase = "branch"]
    /\ treeRequests' = Append(treeRequests, BranchRequested(TreeKey))
    /\ UNCHANGED <<hookInputs, repoQuery, notHookVars>>

\* the request for the branch is answered: ok with a valid body, ok with a body the
\* schema rejects (the queryFn throws), or not ok (the queryFn requests master)
TreeBranchAnswer(k) ==
    /\ treeQuery[k].phase = "branch"
    /\ \E answer \in {"ok", "invalid", "notOk"} :
          CASE answer = "ok" ->
                  /\ treeQuery' = [treeQuery EXCEPT ![k] = Succeed(@)]
                  /\ UNCHANGED treeRequests
            [] answer = "invalid" ->
                  /\ Len(treeRequests) < MaxRequests
                  /\ treeQuery' = [treeQuery EXCEPT ![k] = Fail(@, "branch")]
                  /\ treeRequests' = IF treeQuery'[k].phase = "branch"
                                     THEN Append(treeRequests, treeRequests[Len(treeRequests)])
                                     ELSE treeRequests
            [] answer = "notOk" ->
                  /\ Len(treeRequests) < MaxRequests
                  /\ treeQuery' = [treeQuery EXCEPT ![k].phase = "master"]
                  /\ treeRequests' = Append(treeRequests, "master")
    /\ UNCHANGED <<hookInputs, repoQuery, notHookVars>>

\* the request for master is answered: ok with a valid body, or the queryFn throws
TreeMasterAnswer(k) ==
    /\ treeQuery[k].phase = "master"
    /\ \E ok \in BOOLEAN :
          IF ok
          THEN /\ treeQuery' = [treeQuery EXCEPT ![k] = Succeed(@)]
               /\ UNCHANGED treeRequests
          ELSE /\ Len(treeRequests) < MaxRequests
               /\ treeQuery' = [treeQuery EXCEPT ![k] = Fail(@, "branch")]
               /\ treeRequests' = IF treeQuery'[k].phase = "branch"
                                  THEN Append(treeRequests, BranchRequested(k))
                                  ELSE treeRequests
    /\ UNCHANGED <<hookInputs, repoQuery, notHookVars>>

\* refetch: () => { repoQuery.refetch(); treeQuery.refetch(); } called between two
\* fetches: both queries fetch again, enabled or not
Refetch ==
    /\ repoQuery.phase = "idle" /\ treeQuery[TreeKey].phase = "idle"
    /\ Len(treeRequests) < MaxRequests
    /\ repoQuery' = [repoQuery EXCEPT !.phase = "repo", !.failures = 0]
    /\ treeQuery' = [treeQuery EXCEPT ![TreeKey].phase = "branch", ![TreeKey].failures = 0]
    /\ treeRequests' = Append(treeRequests, BranchRequested(TreeKey))
    /\ UNCHANGED <<hookInputs, notHookVars>>

InitHook ==
    /\ hookEnabled \in BOOLEAN /\ defaultBranch \in {"main", "dev"}
    /\ repoTree \in HookTrees
    /\ repoQuery = NewQuery /\ treeQuery = [k \in TreeKeys |-> NewQuery]
    /\ treeRequests = <<>>
    /\ ClassifyIdle /\ GraphIdle /\ ResolveIdle /\ PipeIdle /\ ParseIdle /\ AnalysisIdle

NextHook ==
    \/ RepoStart
    \/ RepoAnswer
    \/ TreeStart
    \/ \E k \in TreeKeys : TreeBranchAnswer(k)
    \/ \E k \in TreeKeys : TreeMasterAnswer(k)
    \/ Refetch

SpecHook == InitHook /\ [][NextHook]_vars

InitPipeline ==
    /\ treeItems \in PipeTrees /\ GraphStart
    /\ fileImports \in [1..Len(FilesToFetch(buildGraph(treeItems))) -> Outcomes]
    /\ QueryStart
    /\ ClassifyIdle /\ ResolveIdle
    /\ OthersIdle

NextPipeline ==
    \/ BuildGraph
    \/ StartQuery
    \/ \E i \in 1..Len(results) : Settle(i)
    \/ CompleteQuery

SpecPipeline == InitPipeline /\ [][NextPipeline]_vars

\* large repositories, followed up to the point where the requests are issued
InitCaps ==
    /\ treeItems \in CapTrees /\ GraphStart
    /\ PipeIdle /\ ClassifyIdle /\ ResolveIdle
    /\ OthersIdle

NextCaps == BuildGraph \/ StartQuery

SpecCaps == InitCaps /\ [][NextCaps]_vars

(***************************************************************************)
(* Properties of buildGraph (SpecBuild)                                    *)
(***************************************************************************)
Built == graph # NullGraph

LinkIdx(g) == 1..Len(g.links)

NodeIdx(g) == 1..Len(g.nodes)

HierarchyIdx(g) == {i \in LinkIdx(g) : g.links[i].type = "hierarchy"}

DependencyIdx(g) == {i \in LinkIdx(g) : g.links[i].type = "dependency"}

\* the path with its last segment removed, "." for a single segment
ParentOfPath(p) ==
    LET parts == split(p, "/") IN
    IF Len(parts) = 1 THEN DOT ELSE join(SubSeq(parts, 1, Len(parts) - 1), "/")

\* C1: in a built graph both ends of every hierarchy edge are ids of emitted nodes,
\* and the parent path of every node after the root is the id of an emitted node.
C1_NoOrphans ==
    Built =>
      /\ \A i \in HierarchyIdx(graph) :
            /\ graph.links[i].source \in NodeIds(graph)
            /\ graph.links[i].target \in NodeIds(graph)
      /\ \A i \in NodeIdx(graph) :
            i > 1 => ParentOfPath(graph.nodes[i].path) \in NodeIds(graph)

\* a nested file whose two intermediate folders were listed by no entry
C1_Witness ==
    /\ Built
    /\ treeItems = <<Entry(p_src_lib_b_tsx, "blob")>>
    /\ Len(graph.nodes) = 4
    /\ w_src \o SL \o w_lib \in NodeIds(graph)

\* the ids reached from the ids of S along hierarchy edges, in at most k steps
RECURSIVE Descendants(_, _, _)
Descendants(g, S, k) ==
    LET next == {g.links[i].target : i \in {j \in HierarchyIdx(g) : g.links[j].source \in S}}
    IN  IF k = 0 THEN {} ELSE next \cup Descendants(g, next, k - 1)

\* C2: the hierarchy edges of a built graph form a tree rooted at ".": no hierarchy
\* edge enters the root, every node after the root has exactly one incoming
\* hierarchy edge, which leaves its immediate parent, and no id is its own
\* descendant (no cycle, no self-loop).
C2_HierarchyIsTree ==
    Built =>
      /\ \A i \in HierarchyIdx(graph) : graph.links[i].target # DOT
      /\ \A n \in NodeIdx(graph) :
            n > 1 =>
              /\ Cardinality({i \in HierarchyIdx(graph) :
                                graph.links[i].target = graph.nodes[n].id}) = 1
              /\ \A i \in HierarchyIdx(graph) :
                    graph.links[i].target = graph.nodes[n].id
                      => graph.links[i].source = ParentOfPath(graph.nodes[n].path)
      /\ \A id \in NodeIds(graph) : id \notin Descendants(graph, {id}, Len(graph.nodes))

\* C3: no two nodes of a built graph have the same id.
C3_UniqueIds ==
    Built =>
      \A i, j \in NodeIdx(graph) : i # j => graph.nodes[i].id # graph.nodes[j].id

\* C16: buildGraph returns for every entry list, with the root first; for the
\* empty list, and for a list of tree and commit entries whose paths have one
\* segment, the graph has the root (id ".", depth 0) as its only node and no edge.
C16_RootOnlyGraph ==
    Built =>
      /\ Len(graph.nodes) >= 1
      /\ graph.nodes[1].id = <<".">> /\ graph.nodes[1].depth = 0
      /\ (\A i \in 1..Len(treeItems) :
              /\ treeItems[i].type \in {"tree", "commit"}
              /\ \A k \in 1..Len(treeItems[i].path) : treeItems[i].path[k] # "/")
            => (Len(graph.nodes) = 1 /\ graph.links = <<>>)

\* a tree entry and a commit entry, one segment each
C16_Witness ==
    /\ Built
    /\ treeItems = <<Entry(p_a, "tree"), Entry(w_lib, "commit")>>
    /\ Len(graph.nodes) = 1

NodeSet(g) == {g.nodes[i] : i \in NodeIdx(g)}

LinkSet(g) == {g.links[i] : i \in LinkIdx(g)}

\* the entry list reordered by a permutation of its positions
Reordered(items, perm) == [i \in 1..Len(items) |-> items[perm[i]]]

\* C17: buildGraph applied to any reordering of the entry list, the list itself
\* included, gives the same set of nodes, attribute by attribute, and the same
\* set of edges.
C17_OrderIndependent ==
    Built =>
      \A perm \in Permutations(1..Len(treeItems)) :
          LET other == buildGraph(Reordered(treeItems, perm)) IN
          /\ NodeSet(other) = NodeSet(graph)
          /\ LinkSet(other) = LinkSet(graph)

\* src/a.ts before src/lib/b.tsx: the folder src is met again by the second entry,
\* and the reversed list meets src/lib first
C17_Witness ==
    /\ Built
    /\ treeItems = <<Entry(p_src_a_ts, "blob"), Entry(p_src_lib_b_tsx, "blob")>>
    /\ Cardinality(NodeSet(graph)) = 5
    /\ Len(buildGraph(<<treeItems[2], treeItems[1]>>).nodes) = 5

\* C24: the extension of every file node of a built graph is lowercase and holds
\* no dot, whatever the file name is.
C24_ExtensionLowercaseNoDot ==
    Built =>
      \A i \in NodeIdx(graph) :
          graph.nodes[i].type = "file" =>
            /\ graph.nodes[i].extension = toLowerCase(graph.nodes[i].extension)
            /\ \A k \in 1..Len(graph.nodes[i].extension) : graph.nodes[i].extension[k] # "."

\* the number of segments of a path
SegmentCount(p) == Cardinality({k \in 1..Len(p) : p[k] = "/"}) + 1

\* C27: in a built graph the root has depth 0, every other node has the number of
\* segments of its path as depth, and along every hierarchy edge the depth grows
\* by one from the node with the source id to the node with the target id.
C27_DepthIsSegmentCount ==
    Built =>
      /\ graph.nodes[1].depth = 0
      /\ \A i \in NodeIdx(graph) \ {1} : graph.nodes[i].depth = SegmentCount(graph.nodes[i].path)
      /\ \A e \in HierarchyIdx(graph) :
            \A i, j \in NodeIdx(graph) :
                (graph.nodes[i].id = graph.links[e].source
                   /\ graph.nodes[j].id = graph.links[e].target)
                  => graph.nodes[j].depth = graph.nodes[i].depth + 1

(***************************************************************************)
(* Properties of addDependencyLinks (Spec)                                 *)
(***************************************************************************)
Called == graphIn # NullGraph

\* the links the last call appended
AppendedIdx == {i \in LinkIdx(graph) : i > Len(graphIn.links)}

HasLink(g, s, t) == \E i \in LinkIdx(g) : g.links[i].source = s /\ g.links[i].target = t

\* C4: after any sequence of calls the graph holds at most one dependency edge for
\* each ordered (source, target) pair.
C4_AtMostOneDependencyEdge ==
    \A i, j \in DependencyIdx(graph) :
        i # j => ~(/\ graph.links[i].source = graph.links[j].source
                   /\ graph.links[i].target = graph.links[j].target)

\* a second call that repeats, twice, a pair the first call had added
C4_Witness ==
    /\ Called
    /\ Len(dependencies) = 2 /\ dependencies[1] = dependencies[2]
    /\ \E i \in DependencyIdx(graphIn) :
          /\ graphIn.links[i].source = dependencies[1].source
          /\ graphIn.links[i].target = dependencies[1].target
    /\ graph = graphIn

\* C5: a call appends no edge with an end that is not a node id of its input graph,
\* and both ends of every dependency edge of the graph are node ids.
C5_EndpointsAreNodes ==
    /\ \A i \in DependencyIdx(graph) :
          /\ graph.links[i].source \in NodeIds(graph)
          /\ graph.links[i].target \in NodeIds(graph)
    /\ Called =>
          \A i \in AppendedIdx :
              /\ graph.links[i].source \in NodeIds(graphIn)
              /\ graph.links[i].target \in NodeIds(graphIn)

\* a call with one pair whose target is no node and one pair that was appended
C5_Witness ==
    /\ Called
    /\ Len(dependencies) = 2
    /\ \E k \in 1..Len(dependencies) :
          /\ dependencies[k].source \in NodeIds(graphIn)
          /\ dependencies[k].target \notin NodeIds(graphIn)
    /\ Cardinality(AppendedIdx) = 1

\* C6: a pair whose ordered ends already carry an edge of any kind in the input
\* graph is not appended, a hierarchy edge (parent, child) included, while the
\* reversed pair (child, parent), when no edge child -> parent exists yet, is
\* appended exactly once as a dependency edge.
C6_DirectedKindBlindDedup ==
    Called =>
      /\ \A k \in 1..Len(dependencies) :
            HasLink(graphIn, dependencies[k].source, dependencies[k].target)
              => \A i \in AppendedIdx :
                    ~(/\ graph.links[i].source = dependencies[k].source
                      /\ graph.links[i].target = dependencies[k].target)
      /\ \A h \in HierarchyIdx(graphIn) :
            LET parent == graphIn.links[h].source
                child == graphIn.links[h].target
            IN  (/\ InArray(dependencies, Pair(child, parent))
                 /\ ~HasLink(graphIn, child, parent))
                  => Cardinality({i \in AppendedIdx :
                                    /\ graph.links[i].source = child
                                    /\ graph.links[i].target = parent
                                    /\ graph.links[i].type = "dependency"}) = 1

\* one call carrying the hierarchy pair (".", "a") and its reverse: only the
\* reverse was appended
C6_Witness ==
    /\ Called
    /\ dependencies = <<Pair(DOT, p_a), Pair(p_a, DOT)>>
    /\ \E h \in HierarchyIdx(graphIn) :
          graphIn.links[h].source = DOT /\ graphIn.links[h].target = p_a
    /\ DependencyIdx(graphIn) = {}
    /\ Len(graph.links) = Len(graphIn.links) + 1
    /\ graph.links[Len(graph.links)] = [source |-> p_a, target |-> DOT, type |-> "dependency"]

(***************************************************************************)
(* Properties of detectModuleType (SpecClassify)                           *)
(***************************************************************************)
Classified == moduleType # "pending"

\* the tag of the first rule of the priority order that the lower-cased path matches
FirstMatchingRule(p) ==
    LET lower == toLowerCase(p)
        matches == <<TestRule(lower), ApiRule(lower), FrontendRule(lower),
                     DatabaseRule(lower), ConfigRule(lower), DocsRule(lower),
                     LibRule(lower), TRUE>>
        tags == <<"test", "api", "frontend", "database", "config", "docs", "lib", "unknown">>
        first == CHOOSE i \in 1..8 : matches[i] /\ \A j \in 1..(i - 1) : ~matches[j]
    IN  tags[first]

\* C7: the classifier always returns one of the eight tags, the tag of the first
\* rule that matches in the order test, api, frontend, database, config, docs, lib,
\* with unknown when none matches and for the empty path; the result is the same
\* for the path in upper case and in lower case.
C7_FirstMatchWins ==
    Classified =>
      /\ moduleType \in ModuleTypes
      /\ moduleType = FirstMatchingRule(path)
      /\ path = <<>> => moduleType = "unknown"
      /\ detectModuleType(toUpperCase(path)) = moduleType
      /\ detectModuleType(toLowerCase(path)) = moduleType

\* an upper-case path that matches the test rule and the api rule: test
C7_Witness ==
    /\ Classified
    /\ path = toUpperCase(w_src \o SL \o w_api \o SL \o w_a \o Ext(w_test) \o Ext(w_ts))
    /\ path # toLowerCase(path)
    /\ ApiRule(toLowerCase(path))
    /\ moduleType = "test"

ScenarioTable ==
    { <<p_api_users_route_ts, "api">>, <<p_components_Button_tsx, "frontend">>,
      <<p_prisma_schema_prisma, "unknown">>, <<p_db_schema_user_sql, "database">>,
      <<p_README_md, "docs">>, <<p_github_workflows_ci_yml, "config">>,
      <<p_lib_utils_ts, "lib">>, <<p_random_xyz, "unknown">> }

\* C8: each path of the scenario table is classified as the table states.
C8_ScenarioTable ==
    Classified => \A row \in ScenarioTable : path = row[1] => moduleType = row[2]

(***************************************************************************)
(* Properties of resolveImportPath (SpecPipeline, SpecResolve)             *)
(***************************************************************************)
\* a raw target that starts with none of ".", "@/", "~/"
External(raw) ==
    /\ ~(Len(raw) >= 1 /\ raw[1] = ".")
    /\ ~(Len(raw) >= 2 /\ raw[1] = "@" /\ raw[2] = "/")
    /\ ~(Len(raw) >= 2 /\ raw[1] = "~" /\ raw[2] = "/")

Enriched == enriched # NullGraph

\* the raw targets parsed from the content the f-th request is answered with
RawTargets(f) ==
    LET imports == parseImports(FilesToFetch(graph)[f], fileImports[f].content) IN
    IF imports = <<>> THEN <<>> ELSE [k \in 1..Len(imports) |-> imports[k].target]

FileSet(g) == {FilePaths(g)[i] : i \in 1..Len(FilePaths(g))}

\* C9: against the file paths of any built graph, every external raw target, the
\* known paths themselves included, resolves to none from every source; and every
\* dependency edge of the enriched graph comes from an import of its source file
\* whose raw target is not external.
C9_ExternalNeverResolves ==
    /\ Built =>
          \A src \in FileSet(graph) \cup ResolveSources :
            \A raw \in PipeRaws \cup ResolveRaws \cup FileSet(graph) :
                External(raw) => resolveImportPath(src, raw, FilePaths(graph)) = Null
    /\ Enriched =>
          \A i \in DependencyIdx(enriched) :
            \E f \in 1..Len(fileImports) :
                /\ FilesToFetch(graph)[f] = enriched.links[i].source
                /\ fileImports[f].status = "ok"
                /\ \E k \in 1..Len(RawTargets(f)) :
                      /\ ~External(RawTargets(f)[k])
                      /\ resolveImportPath(enriched.links[i].source,
                                           RawTargets(f)[k], FilePaths(graph))
                            = enriched.links[i].target

\* src/a.ts was fetched and imports "src/b.ts", literally a known path: no edge
C9_Witness ==
    /\ Enriched
    /\ InArray(FilePaths(graph), p_src_b_ts)
    /\ \E f \in 1..Len(fileImports) :
          /\ FilesToFetch(graph)[f] = p_src_a_ts
          /\ fileImports[f].status = "ok"
          /\ RawTargets(f) = <<p_src_b_ts>>
    /\ \A i \in DependencyIdx(enriched) : enriched.links[i].source # p_src_a_ts

Resolved == resolved # Pending

SuffixOrder ==
    << <<>>, <<".", "t", "s">>, <<".", "t", "s", "x">>, <<".", "j", "s">>,
       <<".", "j", "s", "x">>, <<".", "m", "j", "s">>,
       <<"/", "i", "n", "d", "e", "x", ".", "t", "s">>,
       <<"/", "i", "n", "d", "e", "x", ".", "t", "s", "x">>,
       <<"/", "i", "n", "d", "e", "x", ".", "j", "s">>,
       <<"/", "i", "n", "d", "e", "x", ".", "j", "s", "x">> >>

\* C10: for a target that is not external the result is the first candidate, in the
\* order bare, .ts, .tsx, .js, .jsx, .mjs, /index.ts, /index.tsx, /index.js,
\* /index.jsx, that is a known path, and none when no candidate is known.
C10_FirstCandidateWins ==
    (Resolved /\ ~External(importPath)) =>
      LET base == Rewrite(sourcePath, importPath)
          known == {i \in 1..Len(SuffixOrder) : InArray(allPaths, base \o SuffixOrder[i])}
      IN  IF known = {} THEN resolved = Null
          ELSE \E i \in known :
                  /\ \A j \in known : i <= j
                  /\ resolved = base \o SuffixOrder[i]

\* src/b/index.ts, src/b.tsx and src/b.ts are all known and "./b" gives src/b.ts
C10_Witness ==
    /\ Resolved
    /\ sourcePath = p_src_a_ts
    /\ importPath = DOT \o SL \o w_b
    /\ allPaths = <<p_src_b_ts, p_src_b \o Ext(w_tsx), p_src_b \o SL \o w_index \o Ext(w_ts)>>
    /\ resolved = p_src_b_ts


\* the first candidate of base, in the suffix order, that is a known path
ClaimFirst(base, all) ==
    LET known == {i \in 1..Len(SuffixOrder) : InArray(all, base \o SuffixOrder[i])} IN
    IF known = {} THEN Null
    ELSE base \o SuffixOrder[CHOOSE i \in known : \A j \in known : i <= j]

\* the non-empty segments of the directory that holds the source path
SourceDirSegments(src) ==
    LET segs == split(src, "/") IN
    SelectSeq(SubSeq(segs, 1, Len(segs) - 1), LAMBDA x : x # <<>>)

\* the segment stack after the first k segments of the raw target were walked
RECURSIVE StackAfter(_, _, _)
StackAfter(stack, parts, k) ==
    IF k = 0 THEN stack
    ELSE LET prev == StackAfter(stack, parts, k - 1)
             seg == parts[k]
         IN  IF seg = <<".", ".">>
             THEN (IF prev = <<>> THEN <<>> ELSE SubSeq(prev, 1, Len(prev) - 1))
             ELSE IF seg = <<".">> THEN prev
             ELSE Append(prev, seg)

\* C11: a raw target that starts with "." is resolved from the stack of the source
\* directory's segments: ".." removes the last segment, "." changes nothing, any
\* other segment is appended, and the candidates are built from the stack joined
\* with "/".
C11_RelativeWalk ==
    (Resolved /\ Len(importPath) >= 1 /\ importPath[1] = ".") =>
      LET parts == split(importPath, "/")
          stack == StackAfter(SourceDirSegments(sourcePath), parts, Len(parts))
      IN  resolved = ClaimFirst(join(stack, "/"), allPaths)

\* "./a/../b" from src/a.ts: a no-op, a push and a pop lead to src/b.ts
C11_Witness ==
    /\ Resolved
    /\ sourcePath = p_src_a_ts
    /\ importPath = DOT \o SL \o w_a \o SL \o DOTDOT \o SL \o w_b
    /\ allPaths = <<p_src_b_ts>>
    /\ resolved = p_src_b_ts

\* C12: "@/x" is looked up as "src/x" and "~/x" as "x", whatever the source path
\* is; src/app/page.tsx importing "@/lib/utils" gives src/lib/utils.ts when that
\* path is known.
C12_AliasRewrite ==
    Resolved =>
      LET rest == SubSeq(importPath, 3, Len(importPath))
          isAt == Len(importPath) >= 2 /\ importPath[1] = "@" /\ importPath[2] = "/"
          isTilde == Len(importPath) >= 2 /\ importPath[1] = "~" /\ importPath[2] = "/"
      IN  /\ isAt => resolved = ClaimFirst(<<"s", "r", "c", "/">> \o rest, allPaths)
          /\ isTilde => resolved = ClaimFirst(rest, allPaths)
          /\ (isAt \/ isTilde) =>
                \A s \in ResolveSources :
                    resolveImportPath(s, importPath, allPaths) = resolved
          /\ (/\ sourcePath = p_src_app_page_tsx
              /\ importPath = AT_SL \o w_lib \o SL \o w_utils
              /\ InArray(allPaths, p_src_lib_utils_ts))
                => resolved = p_src_lib_utils_ts

\* the alias scenario
C12_Witness ==
    /\ Resolved
    /\ sourcePath = p_src_app_page_tsx
    /\ importPath = AT_SL \o w_lib \o SL \o w_utils
    /\ allPaths = <<p_src_b_ts, p_src_lib_utils_ts>>
    /\ resolved = p_src_lib_utils_ts


(***************************************************************************)
(* The dependency pipeline end to end (SpecPipeline)                       *)
(***************************************************************************)
Succeeded == query = "success"

ScenarioTree == <<Entry(p_src_a_ts, "blob"), Entry(p_src_b_ts, "blob")>>

\* the scenario's answers: src/a.ts holds the one import, src/b.ts yields nothing
ScenarioAnswers ==
    /\ treeItems = ScenarioTree
    /\ Len(fileImports) = 2
    /\ fileImports[1] = [status |-> "ok", content |-> NamedImport(DOT \o SL \o w_b)]
    /\ (fileImports[2].status # "ok" \/ fileImports[2].content = <<>>)

\* C13: for the blobs src/a.ts and src/b.ts the graph has exactly the nodes ".",
\* "src", "src/a.ts" and "src/b.ts"; parsing "import { x } from './b'" as src/a.ts
\* gives exactly one dependency, with target "./b"; it resolves to src/b.ts; and
\* the enriched graph is the graph plus exactly the dependency edge src/a.ts ->
\* src/b.ts.
C13_EndToEnd ==
    /\ (Built /\ treeItems = ScenarioTree) =>
          /\ Len(graph.nodes) = 4
          /\ {graph.nodes[i].id : i \in NodeIdx(graph)} = {DOT, w_src, p_src_a_ts, p_src_b_ts}
    /\ (Succeeded /\ ScenarioAnswers) =>
          /\ RawTargets(1) = <<DOT \o SL \o w_b>>
          /\ resolveImportPath(p_src_a_ts, RawTargets(1)[1], FilePaths(graph)) = p_src_b_ts
          /\ results[1] = [status |-> "fulfilled", value |-> <<Pair(p_src_a_ts, p_src_b_ts)>>]
          /\ enriched.nodes = graph.nodes
          /\ enriched.links = graph.links \o
                <<[source |-> p_src_a_ts, target |-> p_src_b_ts, type |-> "dependency"]>>

\* the scenario ran to the end, with the request for src/b.ts rejected
C13_Witness ==
    /\ Succeeded /\ ScenarioAnswers
    /\ fileImports[2].status = "rejected"
    /\ Len(enriched.links) = Len(graph.links) + 1


(***************************************************************************)
(* Properties of groupIntoModules (SpecBuild, SpecPipeline)                *)
(***************************************************************************)
FileIdx(g) == {i \in NodeIdx(g) : g.nodes[i].type = "file"}

FolderIdx(g) == {i \in NodeIdx(g) : g.nodes[i].type = "folder"}

ModuleIdx == 1..Len(modules)

\* the summaries whose files hold the path
SummariesWith(p) == {k \in ModuleIdx : InArray(modules[k].files, p)}

\* the paths of the file nodes of one module type, in node order
FilesOfType(g, t) ==
    LET members == SelectSeq(g.nodes, LAMBDA n : n.type = "file" /\ n.moduleType = t) IN
    IF members = <<>> THEN <<>> ELSE [i \in 1..Len(members) |-> members[i].path]

\* C14: the summaries are one per module type that has a file node, and none for
\* a type carried by folder nodes only; each summary lists the paths of the file
\* nodes of its type in node order, so each file path is in exactly one summary;
\* and no path of a folder node, the root included, is listed in any summary.
C14_FilesGroupedByType ==
    Built =>
      LET types == {graph.nodes[i].moduleType : i \in FileIdx(graph)} IN
      /\ {modules[k].type : k \in ModuleIdx} = types
      /\ Len(modules) = Cardinality(types)
      /\ \A k \in ModuleIdx : modules[k].files = FilesOfType(graph, modules[k].type)
      /\ \A i \in FileIdx(graph) :
            /\ Cardinality(SummariesWith(graph.nodes[i].path)) = 1
            /\ \A k \in SummariesWith(graph.nodes[i].path) :
                  modules[k].type = graph.nodes[i].moduleType
      /\ \A i \in FolderIdx(graph) : SummariesWith(graph.nodes[i].path) = {}

\* C15: the entryPoints of every summary are the first five, in order, of its
\* files whose last path segment starts with index., main., app., server., route.
\* or page.
C15_EntryPointsComputed ==
    Built => \A k \in ModuleIdx : modules[k].entryPoints = HeuristicEntryPoints(modules[k].files)


(***************************************************************************)
(* Properties of the dependency query's fan-out (SpecPipeline)             *)
(***************************************************************************)
\* the requests that were answered with an ok response
OkFiles == {f \in 1..Len(requested) : fileImports[f].status = "ok"}

\* the dependency edges one answered file gives rise to by itself
DerivedEdges(f) ==
    {[source |-> requested[f],
      target |-> resolveImportPath(requested[f], RawTargets(f)[k], FilePaths(graph)),
      type |-> "dependency"] :
        k \in {k \in 1..Len(RawTargets(f)) :
                 resolveImportPath(requested[f], RawTargets(f)[k], FilePaths(graph)) # Null}}

DependencyEdges(g) == {g.links[i] : i \in DependencyIdx(g)}

\* C18: when the query has completed, every task has settled and there is a graph;
\* its nodes and hierarchy edges are those of the built graph; its dependency
\* edges are exactly the union, over the files whose request was answered ok, of
\* the edges that file gives rise to by itself; and a file whose request was
\* rejected or answered not ok is the source of no dependency edge.
C18_FailuresAreIsolated ==
    Succeeded =>
      /\ enriched # NullGraph
      /\ Len(results) = Len(requested)
      /\ \A f \in 1..Len(results) : results[f] # PendingResult
      /\ enriched.nodes = graph.nodes
      /\ SubSeq(enriched.links, 1, Len(graph.links)) = graph.links
      /\ DependencyEdges(enriched) = UNION {DerivedEdges(f) : f \in OkFiles}
      /\ \A f \in (1..Len(requested)) \ OkFiles :
            \A e \in DependencyEdges(enriched) : e.source # requested[f]

\* the request for src/b.ts is rejected first, then b.ts is answered and its
\* import of "@/b" becomes the edge b.ts -> src/b.ts
C18_Witness ==
    /\ Succeeded
    /\ requested = <<p_b_ts, p_src_b_ts>>
    /\ order = <<2, 1>>
    /\ fileImports[2].status = "rejected"
    /\ fileImports[1].status = "ok"
    /\ DependencyEdges(enriched) =
          {[source |-> p_b_ts, target |-> p_src_b_ts, type |-> "dependency"]}

\* C19: the edges of the enriched graph are determined by the graph and by what
\* each request is answered with: in every completed run, whatever the order in
\* which the tasks settled, they are the edges of the query function applied to
\* the graph and the answers.
C19_CompletionOrderIrrelevant ==
    Succeeded => LinkSet(enriched) = LinkSet(DependencyQueryFn(graph, fileImports))

\* the second task settled before the first, and both files contributed an edge
C19_Witness ==
    /\ Succeeded
    /\ order = <<2, 1>>
    /\ \A f \in 1..2 : \E e \in DependencyEdges(enriched) : e.source = requested[f]


(***************************************************************************)
(* The caps of the dependency query (SpecCaps)                             *)
(***************************************************************************)
Started == query # "idle"

ParsableFileNodes(g) == {i \in FileIdx(g) : IsParsable(g.nodes[i].path)}

\* C20: whatever the number of file nodes, a started query has selected at most
\* 50 files and requested at most 20, the second cap being below the first; the
\* requested files are selected files, and every one of them is the path of a
\* file node with a parsable extension.
C20_SelectionAndFetchCaps ==
    /\ FetchCap < SelectCap
    /\ Started =>
          /\ Len(filesToParse) <= 50
          /\ Len(requested) <= 20
          /\ \A i \in 1..Len(requested) :
                /\ InArray(filesToParse, requested[i])
                /\ IsParsable(requested[i])
                /\ \E n \in FileIdx(graph) : graph.nodes[n].path = requested[i]
          /\ \A i \in 1..Len(filesToParse) : IsParsable(filesToParse[i])

\* more parsable files than the selection cap admits, after two that are not
C20_Witness ==
    /\ Started
    /\ Cardinality(ParsableFileNodes(graph)) > 50
    /\ Cardinality(FileIdx(graph)) > Cardinality(ParsableFileNodes(graph))
    /\ Len(filesToParse) = 50
    /\ Len(requested) = 20


\* the nodes of g that carry the id
NodesWithId(g, id) == {i \in NodeIdx(g) : g.nodes[i].id = id}

\* C25: whatever pairs are passed, each dependency edge of the returned graph joins
\* two file nodes: no node carrying the id of its source or of its target is a
\* folder or the root.
C25_DependencyEdgesJoinFiles ==
    Called =>
      \A e \in DependencyIdx(graph) :
          \A i \in NodesWithId(graph, graph.links[e].source)
                     \cup NodesWithId(graph, graph.links[e].target) :
              graph.nodes[i].type = "file"


HierarchyLinks(g) == SelectSeq(g.links, LAMBDA l : l.type = "hierarchy")

\* C26: a call leaves its input graph as it was, returns the input's nodes in the
\* same order with the same attributes, returns the input's edges unchanged as a
\* prefix of the edge list, and every edge after the prefix has kind "dependency";
\* so after any sequence of calls the hierarchy edges are those buildGraph emitted.
C26_PureMerge ==
    /\ [][graph # NullGraph =>
             /\ graphIn' = graph
             /\ graph'.nodes = graph.nodes
             /\ Len(graph'.links) >= Len(graph.links)
             /\ SubSeq(graph'.links, 1, Len(graph.links)) = graph.links
             /\ \A i \in LinkIdx(graph') :
                   i > Len(graph.links) => graph'.links[i].type = "dependency"
             /\ HierarchyLinks(graph') = HierarchyLinks(graph)]_vars
    /\ [](Built => HierarchyLinks(graph) = buildGraph(treeItems).links)

\* a second call that appends an edge behind hierarchy edges and an earlier
\* dependency edge
C26_Witness ==
    /\ Called
    /\ DependencyIdx(graphIn) # {}
    /\ HierarchyIdx(graphIn) # {}
    /\ Len(graph.links) > Len(graphIn.links)


\* C30: a pair (s, t) of the list whose endpoints are both node ids is appended
\* unless an edge with source exactly s and target exactly t is already in the
\* input graph or the same pair stands earlier in the list; this for any ids,
\* those containing "->" included.
C30_SuppressedOnlyBySamePair ==
    Called =>
      \A k \in 1..Len(dependencies) :
          LET s == dependencies[k].source
              t == dependencies[k].target
          IN  (/\ s \in NodeIds(graphIn)
               /\ t \in NodeIds(graphIn)
               /\ ~HasLink(graphIn, s, t)
               /\ \A j \in 1..(k - 1) : dependencies[j] # dependencies[k])
                => \E i \in AppendedIdx :
                      graph.links[i].source = s /\ graph.links[i].target = t


\* C28: the result of resolveImportPath depends on its three arguments only, so a
\* repeated call with the same arguments returns what the call before returned,
\* and the result is none or an element of the known paths passed in.
C28_PureAndKnown ==
    /\ [][resolved # Pending =>
             resolved' = resolveImportPath(sourcePath, importPath, allPaths)
             /\ resolved' = resolved]_vars
    /\ [](resolved \in {Pending, Null} \/ InArray(allPaths, resolved))

\* a second call whose rewritten target is only known with a suffix added, next to
\* the cases where the rewritten target is in no known path
C28_Witness ==
    /\ resolveCalls = 2
    /\ resolved # Null
    /\ resolved # Rewrite(sourcePath, importPath)
    /\ ~InArray(allPaths, Rewrite(sourcePath, importPath))


\* C29: whatever the files contain, the graph the dependency query returns has no
\* dependency edge from a file to itself.
C29_NoSelfDependency ==
    Succeeded =>
      \A e \in DependencyIdx(enriched) : enriched.links[e].source # enriched.links[e].target


(***************************************************************************)
(* Properties of parseImports (SpecParse)                                  *)
(***************************************************************************)
Parsed == parsed # NotParsed

\* the lines the scan of one pattern matches, in text order
LinesOf(lines, p) == SelectSeq(lines, LAMBDA l : l.pattern = p)

\* one dependency per matched line, in the order of the batteries
ExpectedDeps(file, lines) ==
    LET ls == LinesOf(lines, "esImport") \o LinesOf(lines, "require")
                \o LinesOf(lines, "dynamic") \o LinesOf(lines, "reexport")
    IN  IF ls = <<>> THEN <<>>
        ELSE [k \in 1..Len(ls) |->
                [source |-> file, target |-> ls[k].target, type |-> ls[k].type]]

\* C23: a file whose extension is not recognised parses to the empty sequence; a
\* JS-family file parses to one dependency per pattern match, each with the file
\* path as its source, all ES imports first, then all requires, then all dynamic
\* imports, then all re-exports, in text order within each of the four; the result
\* is determined by the path and the content.
C23_BatteryThenTextOrder ==
    Parsed =>
      /\ parsed = parseImports(parseFile.path, ContentOf(parseLines))
      /\ parseFile.family = "none" => parsed = <<>>
      /\ parseFile.family = "js" => parsed = ExpectedDeps(parseFile.path, parseLines)

\* a JS-family file whose first line is a require and whose second is an ES import
C23_Witness ==
    /\ Parsed
    /\ parseFile.family = "js"
    /\ Len(parseLines) = 2
    /\ parseLines[1].pattern = "require" /\ parseLines[2].pattern = "esImport"
    /\ Len(parsed) = 2
    /\ parsed[1].type = "import" /\ parsed[2].type = "require"


(***************************************************************************)
(* Properties of analyzeFile (SpecAnalyze)                                 *)
(***************************************************************************)
Analyzed == analysis # NotAnalyzed

\* the FileAnalysis shape
IsFileAnalysis(a) ==
    /\ a.path.t = "string" /\ a.summary.t = "string" /\ a.purpose.t = "string"
    /\ a.dependencies.t = "array" /\ a.exports.t = "array"
    /\ a.complexity.t = "string" /\ a.complexity.v[1] \in {w_low, w_medium, w_high}

\* the call returned and did not throw
NeverThrows == Analyzed => analysis.status = "returned"

\* the returned record is the heuristic analyzer's
FromHeuristic ==
    analysis.value = heuristicFileAnalysis(analyzedFile.path, analyzedFile.content)

\* C21: analyzeFile never throws; without a key, on a failed or not-ok request and
\* on a missing, non-JSON or malformed answer it returns a record of the
\* FileAnalysis shape (path, summary, purpose, list of dependencies, list of
\* exports, complexity low, medium or high), built from the answer or by the
\* heuristic analyzer.
C21_AlwaysAFileAnalysis ==
    Analyzed =>
      /\ analysis.status = "returned"
      /\ IsFileAnalysis(analysis.value)
      /\ (Falsy(apiKey) \/ aiReply.kind # "text") => FromHeuristic


(***************************************************************************)
(* Properties of useRepoGraph (SpecHook)                                   *)
(***************************************************************************)
\* what the hook returns in the current state
Hook == HookReturn(repoQuery, treeQuery, defaultBranch, repoTree)

\* tree retrieval has failed: the tree query the hook observes is in error
TreeFailed == treeQuery[TreeKey].status = "error"

\* a step that issues a tree request
IssuesTreeRequest == Len(treeRequests') > Len(treeRequests)

\* C22: a tree request is issued only when the metadata request has succeeded;
\* and when tree retrieval has failed (the request for the branch and the one for
\* master both failed) the hook returns no graph, no modules and no stats, and
\* reports isError with an error.
C22_TreeAfterRepoAndNoPartialGraph ==
    /\ [][IssuesTreeRequest => repoQuery.hasData]_vars
    /\ [](TreeFailed =>
            /\ Hook.graph = NullGraph /\ Hook.modules = <<>> /\ Hook.stats = NoStats
            /\ Hook.isError /\ Hook.error # "null")

====
